---------------------------- MODULE Spec2Model ----------------------------
(***************************************************************************)
(* State-machine model of the .nettrace (EventPipe) pull parser of         *)
(* coreclr-tracing (src/coreclr-tracing/src/nettrace) and of the event     *)
(* normalizer it feeds (src/coreclr-tracing/src/coreclr/eventpipe.rs).     *)
(*                                                                         *)
(* The input is a byte stream (a sequence of numbers 0..255) and the       *)
(* parser reads it exactly as the source does: tag bytes, little-endian    *)
(* integers, length-prefixed strings, alignment padding, block buffers,    *)
(* compressed event headers and varints.                                   *)
(*                                                                         *)
(* Wire integers of 32 and 64 bits are kept as tuples of 16-bit limbs,     *)
(* least significant first (2 limbs for u32, 4 for u64), so that           *)
(* truncation, wrapping addition and the u32::MAX sentinel are exact.      *)
(***************************************************************************)
EXTENDS Integers, Sequences, FiniteSets, TLC

---------------------------------------------------------------------------
(* Words: u32 = <<l0, l1>>, u64 = <<l0, l1, l2, l3>>, limbs below 65536.    *)

Limb == 256 * 256

\* The u32 / u64 holding the small number n (n < 2^31).
W32(n) == <<n % Limb, n \div Limb>>
W64(n) == <<n % Limb, n \div Limb, 0, 0>>

ZeroBytes16 == [i \in 1..16 |-> 0]

\* `x as u32` of a u64.
TruncU32(w) == <<w[1], w[2]>>

\* `x as u64` of a u32.
ExtU64(w) == <<w[1], w[2], 0, 0>>

\* A u32 whose value is below 2^31 can be used as a length or a count.
IsSmall(w) == w[2] < 32768 /\ \A i \in 3..Len(w) : w[i] = 0

\* The number held by a small word.
ToNat(w) == w[1] + Limb * w[2]

\* Limb-wise addition with carry, wrapping at the word's width
\* (u32::wrapping_add, u64::wrapping_add).
RECURSIVE AddLimbs(_, _, _, _)
AddLimbs(a, b, i, carry) ==
    IF i > Len(a) THEN <<>>
    ELSE LET s == a[i] + b[i] + carry
         IN  <<s % Limb>> \o AddLimbs(a, b, i + 1, s \div Limb)

WrappingAdd(a, b) == AddLimbs(a, b, 1, 0)

\* u32::wrapping_add_signed(i32) and u64::wrapping_add_signed(i64): the signed
\* operand is the same bit pattern, so the sum of the patterns modulo 2^w.
WrappingAddSigned(a, b) == WrappingAdd(a, b)

\* `stack_id += 1` on a u32 (the model's inputs keep it away from u32::MAX).
Succ32(w) == WrappingAdd(w, W32(1))

---------------------------------------------------------------------------
(* Readers.  A read returns [ok, v, pos] or [ok |-> FALSE, err].  Positions *)
(* are 0-based offsets, as std::io::Cursor and Seek count them.            *)

Fail(e) == [ok |-> FALSE, err |-> e]
Ok(v, p) == [ok |-> TRUE, v |-> v, pos |-> p]

\* The `?` operator: a failed read is returned at once, a successful one
\* is handed to what follows it.
Try(r, K(_)) == IF r.ok THEN K(r) ELSE r

\* The read R at the position the read r has left; the failure r when r
\* has failed.  A chain of these ends in the first failure of the chain.
Then(r, R(_)) == IF r.ok THEN R(r.pos) ELSE r

\* Read::read_exact of n bytes at p: an I/O error (UnexpectedEof) when fewer
\* than n bytes remain.
ReadBytes(s, p, n) ==
    IF p + n <= Len(s) THEN Ok(SubSeq(s, p + 1, p + n), p + n) ELSE Fail("Io")

LimbsOf(bytes) == [i \in 1..(Len(bytes) \div 2) |-> bytes[2 * i - 1] + 256 * bytes[2 * i]]

ReadU8(s, p) == Try(ReadBytes(s, p, 1), LAMBDA r : Ok(r.v[1], r.pos))

ReadU16(s, p) == Try(ReadBytes(s, p, 2), LAMBDA r : Ok(r.v[1] + 256 * r.v[2], r.pos))

ReadU32(s, p) == Try(ReadBytes(s, p, 4), LAMBDA r : Ok(LimbsOf(r.v), r.pos))

ReadU64(s, p) == Try(ReadBytes(s, p, 8), LAMBDA r : Ok(LimbsOf(r.v), r.pos))

\* binrw align_after = 4: the next multiple of 4 of the stream position.
AlignUp4(p) == ((p + 3) \div 4) * 4

---------------------------------------------------------------------------
(* Arithmetic overflow.  The parameter chk of the operators below is the   *)
(* build's overflow-checks setting: with it an overflowing `-`, `+=` or    *)
(* `<<` panics, without it the operation wraps.  Every entry point draws   *)
(* chk from BOOLEAN, so both builds are behaviours of the model.  A panic  *)
(* travels as the failure "Panic"; `?` passes it on like any failure and   *)
(* only the entry point tells it from an error return.                     *)

Expect(r) == IF r.ok THEN r ELSE Fail("Panic")

RECURSIVE BitOr(_, _)
BitOr(a, b) ==
    IF a = 0 THEN b
    ELSE IF b = 0 THEN a
    ELSE (IF a % 2 = 1 \/ b % 2 = 1 THEN 1 ELSE 0) + 2 * BitOr(a \div 2, b \div 2)

\* result | ((g as u64) << sh) for a 7-bit group g and 0 <= sh < 64; the bits
\* shifted past bit 63 are lost.
OrShift(result, g, sh) ==
    [i \in 1..4 |->
        IF i = (sh \div 16) + 1 THEN BitOr(result[i], (g * (2 ^ (sh % 16))) % Limb)
        ELSE IF i = (sh \div 16) + 2 THEN BitOr(result[i], (g * (2 ^ (sh % 16))) \div Limb)
        ELSE result[i]]

\* The loop of parse_varint_u64: a byte is read, its low 7 bits are or-ed
\* in at `shift` (a shift of 64 or more panics in a checked build and is
\* taken modulo 64 otherwise), and the loop ends at a byte below 128.
RECURSIVE VarintLoop(_, _, _, _, _)
RECURSIVE VarintNext(_, _, _, _, _)
VarintLoop(s, p, result, shift, chk) ==
    Try(ReadU8(s, p), LAMBDA r :
        IF shift >= 64 /\ chk THEN Fail("Panic")
        ELSE VarintNext(s, r, OrShift(result, r.v % 128, shift % 64), shift, chk))

VarintNext(s, r, result, shift, chk) ==
    IF r.v < 128 THEN Ok(result, r.pos) ELSE VarintLoop(s, r.pos, result, shift + 7, chk)


\* A signed decoder that takes the varint as zig-zag: (x >> 1) ^ -(x & 1),
\* which is x / 2 for an even x and the inverted x / 2 for an odd one.
parse_varint_i64_ZigZag(s, p, chk) ==
    Try(VarintLoop(s, p, <<0, 0, 0, 0>>, 0, chk), LAMBDA r :
        LET half == [i \in 1..4 |->
                        (r.v[i] \div 2) + (IF i < 4 THEN (r.v[i + 1] % 2) * 32768 ELSE 0)]
        IN  Ok(IF r.v[1] % 2 = 0 THEN half ELSE [i \in 1..4 |-> 65535 - half[i]], r.pos))

parse_varint_u64(s, p, chk) == VarintLoop(s, p, <<0, 0, 0, 0>>, 0, chk)

parse_varint_u32(s, p, chk) ==
    Try(parse_varint_u64(s, p, chk), LAMBDA r : Ok(TruncU32(r.v), r.pos))

\* transmute of the u64: the same bit pattern, read as i64.
parse_varint_i64(s, p, chk) == parse_varint_u64(s, p, chk)

\* transmute of `x as u32`: the low 32 bits, read as i32.
parse_varint_i32(s, p, chk) ==
    Try(parse_varint_u64(s, p, chk), LAMBDA r : Ok(TruncU32(r.v), r.pos))

---------------------------------------------------------------------------
(* The binrw structures of nettrace/mod.rs.                                *)

\* NettraceString: a u32 length and that many bytes.  A length the stream
\* cannot hold ends in the reader's end-of-file error.
NettraceString_read(s, p) ==
    Try(ReadU32(s, p), LAMBDA l :
        IF ~IsSmall(l.v) THEN Fail("Io") ELSE ReadBytes(s, l.pos, ToNat(l.v)))

MagicNettrace == <<78, 101, 116, 116, 114, 97, 99, 101>>
IdentFastSerialization == <<33, 70, 97, 115, 116, 83, 101, 114, 105, 97, 108,
                            105, 122, 97, 116, 105, 111, 110, 46, 49>>

\* NettraceHeader: magic b"Nettrace", then ident.
NettraceHeader_read(s, p) ==
    Try(ReadBytes(s, p, 8), LAMBDA m :
        IF m.v # MagicNettrace THEN Fail("BadMagic") ELSE NettraceString_read(s, m.pos))

TagInvalid == 0
TagNullReference == 1
TagBeginPrivateObject == 5
TagEndObject == 6
NettraceTags == {TagInvalid, TagNullReference, TagBeginPrivateObject, TagEndObject}

\* NettraceTag: a u8 that must be one of the four discriminants.
NettraceTag_read(s, p) ==
    Try(ReadU8(s, p), LAMBDA r : IF r.v \notin NettraceTags THEN Fail("NoVariantMatch") ELSE r)

\* NettraceTypeObject: magic 05 01, version, minimum_reader_version,
\* type_name, end_object (any tag: the value read is not compared).
NettraceTypeObject_read(s, p) ==
    Try(ReadBytes(s, p, 2), LAMBDA m :
    IF m.v # <<5, 1>> THEN Fail("BadMagic") ELSE
    Try(ReadU32(s, m.pos), LAMBDA ver :
    Try(ReadU32(s, ver.pos), LAMBDA mrv :
    Try(NettraceString_read(s, mrv.pos), LAMBDA nm :
    Try(NettraceTag_read(s, nm.pos), LAMBDA e :
        Ok([version |-> ver.v, minimum_reader_version |-> mrv.v,
            type_name |-> nm.v, end_object |-> e.v], e.pos))))))

\* NettraceTraceObject: NettraceTime (8 u16), two u64, four u32: 48 bytes.
NettraceTraceObject_read(s, p) ==
    Try(ReadBytes(s, p, 48), LAMBDA b :
        Ok([sync_time_utc |-> LimbsOf(SubSeq(b.v, 1, 16)),
            sync_time_qpc |-> LimbsOf(SubSeq(b.v, 17, 24)),
            qpc_frequency |-> LimbsOf(SubSeq(b.v, 25, 32)),
            pointer_size |-> LimbsOf(SubSeq(b.v, 33, 36)),
            process_id |-> LimbsOf(SubSeq(b.v, 37, 40)),
            number_of_processors |-> LimbsOf(SubSeq(b.v, 41, 44)),
            expected_cpu_sampling_rate |-> LimbsOf(SubSeq(b.v, 45, 48))], b.pos))

\* NettraceEventBlockHeader: size, flags (u16), min and max timestamp (u64),
\* then pad_after = size - 20, a u16 subtraction.
NettraceEventBlockHeader_read(s, p, chk) ==
    Try(ReadU16(s, p), LAMBDA sz :
    Try(ReadU16(s, sz.pos), LAMBDA fl :
    Try(ReadU64(s, fl.pos), LAMBDA mn :
    Try(ReadU64(s, mn.pos), LAMBDA mx :
        IF sz.v < 20 /\ chk THEN Fail("Panic")
        ELSE Ok([size |-> sz.v, flags |-> fl.v, min_timestamp |-> mn.v,
                 max_timestamp |-> mx.v],
                mx.pos + ((sz.v + Limb - 20) % Limb))))))

\* NettraceEventBlock: size (u32, align_after = 4), header.
NettraceEventBlock_read(s, p, chk) ==
    Try(ReadU32(s, p), LAMBDA sz :
    Try(NettraceEventBlockHeader_read(s, AlignUp4(sz.pos), chk), LAMBDA h :
        Ok([size |-> sz.v, header |-> h.v], h.pos)))

RECURSIVE ReadU64s(_, _, _, _)
ReadU64s(s, p, n, acc) ==
    IF n = 0 THEN Ok(acc, p)
    ELSE Try(ReadU64(s, p), LAMBDA r : ReadU64s(s, r.pos, n - 1, Append(acc, r.v)))

\* StackStack: size (u32, in bytes), then size / 8 addresses (u64).
StackStack_read(s, p) ==
    Try(ReadU32(s, p), LAMBDA sz :
    IF ~IsSmall(sz.v) THEN Fail("Io") ELSE
    Try(ReadU64s(s, sz.pos, ToNat(sz.v) \div 8, <<>>), LAMBDA a :
        Ok([size |-> sz.v, stack |-> a.v], a.pos)))

RECURSIVE ReadStackStacks(_, _, _, _)
ReadStackStacks(s, p, n, acc) ==
    IF n = 0 THEN Ok(acc, p)
    ELSE Try(StackStack_read(s, p), LAMBDA r :
             ReadStackStacks(s, r.pos, n - 1, Append(acc, r.v)))

\* StackBlock: size (u32, align_after = 4), first_id, count, count stacks.
StackBlock_read(s, p) ==
    Try(ReadU32(s, p), LAMBDA sz :
    Try(ReadU32(s, AlignUp4(sz.pos)), LAMBDA fid :
    Try(ReadU32(s, fid.pos), LAMBDA cnt :
    IF ~IsSmall(cnt.v) THEN Fail("Io") ELSE
    Try(ReadStackStacks(s, cnt.pos, ToNat(cnt.v), <<>>), LAMBDA st :
        Ok([size |-> sz.v, first_id |-> fid.v, count |-> cnt.v, stacks |-> st.v],
           st.pos)))))

\* ThreadSequenceNumber: thread_id (u64), sequence_number (u32).
RECURSIVE ReadThreadSequenceNumbers(_, _, _, _)
ReadThreadSequenceNumbers(s, p, n, acc) ==
    IF n = 0 THEN Ok(acc, p)
    ELSE Try(ReadU64(s, p), LAMBDA t :
         Try(ReadU32(s, t.pos), LAMBDA q :
             ReadThreadSequenceNumbers(s, q.pos, n - 1,
                 Append(acc, [thread_id |-> t.v, sequence_number |-> q.v]))))

\* SequencePointBlock: size (u32, align_after = 4), timestamp, thread_count,
\* thread_count thread sequence numbers.
SequencePointBlock_read(s, p) ==
    Try(ReadU32(s, p), LAMBDA sz :
    Try(ReadU64(s, AlignUp4(sz.pos)), LAMBDA ts :
    Try(ReadU32(s, ts.pos), LAMBDA cnt :
    IF ~IsSmall(cnt.v) THEN Fail("Io") ELSE
    Try(ReadThreadSequenceNumbers(s, cnt.pos, ToNat(cnt.v), <<>>), LAMBDA th :
        Ok([size |-> sz.v, timestamp |-> ts.v, thread_count |-> cnt.v,
            thread_sequence_numbers |-> th.v], th.pos)))))

\* EventBlobHeader::default().
DefaultEventBlobHeader ==
    [size |-> W32(0), raw_metadata_id |-> W32(0), sequence_number |-> W32(0),
     thread_id |-> W64(0), capture_thread_id |-> W64(0),
     processor_number |-> W32(0), stack_id |-> W32(0), timestamp |-> W64(0),
     activity_id |-> ZeroBytes16, related_activity_id |-> ZeroBytes16,
     payload_size |-> W32(0), metadata_id |-> W32(0), is_sorted |-> FALSE]

\* EventBlobHeader as binrw reads it (the uncompressed header, 80 bytes);
\* metadata_id = raw_metadata_id & 0x7fffffff, is_sorted = its bit 31.
EventBlobHeader_read(s, p) ==
    Try(ReadBytes(s, p, 80), LAMBDA b :
        Ok([size |-> LimbsOf(SubSeq(b.v, 1, 4)),
            raw_metadata_id |-> LimbsOf(SubSeq(b.v, 5, 8)),
            sequence_number |-> LimbsOf(SubSeq(b.v, 9, 12)),
            thread_id |-> LimbsOf(SubSeq(b.v, 13, 20)),
            capture_thread_id |-> LimbsOf(SubSeq(b.v, 21, 28)),
            processor_number |-> LimbsOf(SubSeq(b.v, 29, 32)),
            stack_id |-> LimbsOf(SubSeq(b.v, 33, 36)),
            timestamp |-> LimbsOf(SubSeq(b.v, 37, 44)),
            activity_id |-> SubSeq(b.v, 45, 60),
            related_activity_id |-> SubSeq(b.v, 61, 76),
            payload_size |-> LimbsOf(SubSeq(b.v, 77, 80)),
            metadata_id |-> <<b.v[5] + 256 * b.v[6], (b.v[7] + 256 * b.v[8]) % 32768>>,
            is_sorted |-> b.v[8] >= 128], b.pos))

---------------------------------------------------------------------------
(* EventBlobIter (nettrace/parser.rs).                                     *)

\* is_set(flags, bit)
is_set(flags, bit) == (flags \div (2 ^ bit)) % 2 = 1

\* A field read at p when its flag bit is set, and inherited otherwise.
OptVarintU32(c, s, p, inherited, chk) ==
    IF c THEN parse_varint_u32(s, p, chk) ELSE Ok(inherited, p)
OptVarintI32(c, s, p, inherited, chk) ==
    IF c THEN parse_varint_i32(s, p, chk) ELSE Ok(inherited, p)
\* A 64-bit field that is 0, and not inherited, when its bit is clear.
OptVarintU64_ZeroWhenClear(c, s, p, inherited, chk) ==
    IF c THEN parse_varint_u64(s, p, chk) ELSE Ok(W64(0), p)
OptVarintU64(c, s, p, inherited, chk) ==
    IF c THEN parse_varint_u64(s, p, chk) ELSE Ok(inherited, p)
OptBytes16(c, s, p, inherited) ==
    IF c THEN ReadBytes(s, p, 16) ELSE Ok(inherited, p)

\* The assembled header counting a sequence number when the previous
\* header's, and not this blob's, metadata id is not 0.
CompressedHeader_IncrementByPrevId(fl, prev, md, sd, ct, pn, tid, sid, td, act, rel, ps) ==
    LET seq0 == IF is_set(fl, 1)
                THEN WrappingAddSigned(prev.sequence_number, sd)
                ELSE prev.sequence_number
        sorted == is_set(fl, 6)
    IN  [size |-> W32(0),
         raw_metadata_id |-> <<md[1], BitOr(md[2], IF sorted THEN 32768 ELSE 0)>>,
         sequence_number |-> IF prev.metadata_id # W32(0)
                             THEN WrappingAdd(seq0, W32(1)) ELSE seq0,
         thread_id |-> tid,
         capture_thread_id |-> ct,
         processor_number |-> pn,
         stack_id |-> sid,
         timestamp |-> WrappingAddSigned(prev.timestamp, td),
         activity_id |-> act,
         related_activity_id |-> rel,
         payload_size |-> ps,
         metadata_id |-> md,
         is_sorted |-> sorted]

\* The assembled header without the count of a sequence number.
CompressedHeader_NoIncrement(fl, prev, md, sd, ct, pn, tid, sid, td, act, rel, ps) ==
    LET seq0 == IF is_set(fl, 1)
                THEN WrappingAddSigned(prev.sequence_number, sd)
                ELSE prev.sequence_number
        sorted == is_set(fl, 6)
    IN  [size |-> W32(0),
         raw_metadata_id |-> <<md[1], BitOr(md[2], IF sorted THEN 32768 ELSE 0)>>,
         sequence_number |-> seq0,
         thread_id |-> tid,
         capture_thread_id |-> ct,
         processor_number |-> pn,
         stack_id |-> sid,
         timestamp |-> WrappingAddSigned(prev.timestamp, td),
         activity_id |-> act,
         related_activity_id |-> rel,
         payload_size |-> ps,
         metadata_id |-> md,
         is_sorted |-> sorted]

\* The assembled header with the delta as its timestamp.
CompressedHeader_TimestampAbsolute(fl, prev, md, sd, ct, pn, tid, sid, td, act, rel, ps) ==
    LET seq0 == IF is_set(fl, 1)
                THEN WrappingAddSigned(prev.sequence_number, sd)
                ELSE prev.sequence_number
        sorted == is_set(fl, 6)
    IN  [size |-> W32(0),
         raw_metadata_id |-> <<md[1], BitOr(md[2], IF sorted THEN 32768 ELSE 0)>>,
         sequence_number |-> IF md # W32(0) THEN WrappingAdd(seq0, W32(1)) ELSE seq0,
         thread_id |-> tid,
         capture_thread_id |-> ct,
         processor_number |-> pn,
         stack_id |-> sid,
         timestamp |-> td,
         activity_id |-> act,
         related_activity_id |-> rel,
         payload_size |-> ps,
         metadata_id |-> md,
         is_sorted |-> sorted]

\* The assembled header staying sorted after a sorted one.
CompressedHeader_SortedInherited(fl, prev, md, sd, ct, pn, tid, sid, td, act, rel, ps) ==
    LET seq0 == IF is_set(fl, 1)
                THEN WrappingAddSigned(prev.sequence_number, sd)
                ELSE prev.sequence_number
        sorted == is_set(fl, 6) \/ prev.is_sorted
    IN  [size |-> W32(0),
         raw_metadata_id |-> <<md[1], BitOr(md[2], IF sorted THEN 32768 ELSE 0)>>,
         sequence_number |-> IF md # W32(0) THEN WrappingAdd(seq0, W32(1)) ELSE seq0,
         thread_id |-> tid,
         capture_thread_id |-> ct,
         processor_number |-> pn,
         stack_id |-> sid,
         timestamp |-> WrappingAddSigned(prev.timestamp, td),
         activity_id |-> act,
         related_activity_id |-> rel,
         payload_size |-> ps,
         metadata_id |-> md,
         is_sorted |-> sorted]

\* The header parse_compressed_header builds from the fields it has read:
\* sd is the sequence-number delta and td the timestamp delta.
CompressedHeader(flags, prev_header, md, sd, ct, pn, tid, sid, td, act, rel, ps) ==
    LET seq0 == IF is_set(flags, 1)
                THEN WrappingAddSigned(prev_header.sequence_number, sd)
                ELSE prev_header.sequence_number
        sorted == is_set(flags, 6)
    IN  [size |-> W32(0),
         raw_metadata_id |-> <<md[1], BitOr(md[2], IF sorted THEN 32768 ELSE 0)>>,
         sequence_number |-> IF md # W32(0) THEN WrappingAdd(seq0, W32(1)) ELSE seq0,
         thread_id |-> tid,
         capture_thread_id |-> ct,
         processor_number |-> pn,
         stack_id |-> sid,
         timestamp |-> WrappingAddSigned(prev_header.timestamp, td),
         activity_id |-> act,
         related_activity_id |-> rel,
         payload_size |-> ps,
         metadata_id |-> md,
         is_sorted |-> sorted]

\* EventBlobIter::parse_compressed_header.  The `?` of every read returns
\* the failure at once; prev_header is replaced only by a complete header,
\* which is the value returned.
parse_compressed_header(s, p, prev_header, chk) ==
    LET fl == ReadU8(s, p)
        md == Then(fl, LAMBDA q :
                  OptVarintU32(is_set(fl.v, 0), s, q, prev_header.metadata_id, chk))
        sd == Then(md, LAMBDA q : OptVarintI32(is_set(fl.v, 1), s, q, W32(0), chk))
        ct == Then(sd, LAMBDA q :
                  OptVarintU64(is_set(fl.v, 1), s, q, prev_header.capture_thread_id, chk))
        pn == Then(ct, LAMBDA q :
                  OptVarintU32(is_set(fl.v, 1), s, q, prev_header.processor_number, chk))
        tid == Then(pn, LAMBDA q :
                   OptVarintU64(is_set(fl.v, 2), s, q, prev_header.thread_id, chk))
        sid == Then(tid, LAMBDA q :
                   OptVarintU32(is_set(fl.v, 3), s, q, prev_header.stack_id, chk))
        td == Then(sid, LAMBDA q : parse_varint_i64(s, q, chk))
        act == Then(td, LAMBDA q :
                   OptBytes16(is_set(fl.v, 4), s, q, prev_header.activity_id))
        rel == Then(act, LAMBDA q :
                   OptBytes16(is_set(fl.v, 5), s, q, prev_header.related_activity_id))
        ps == Then(rel, LAMBDA q :
                  OptVarintU32(is_set(fl.v, 7), s, q, prev_header.payload_size, chk))
    IN  IF /\ fl.ok /\ md.ok /\ sd.ok /\ ct.ok /\ pn.ok /\ tid.ok
           /\ sid.ok /\ td.ok /\ act.ok /\ rel.ok /\ ps.ok
        THEN Ok(CompressedHeader(fl.v, prev_header, md.v, sd.v, ct.v, pn.v, tid.v,
                                 sid.v, td.v, act.v, rel.v, ps.v), ps.pos)
        ELSE ps

\* EventBlobIter::parse_header: the compressed parser, or binrw's read of
\* the fixed header (which leaves prev_header alone).
parse_header(s, p, prev_header, is_compressed, chk) ==
    IF is_compressed THEN parse_compressed_header(s, p, prev_header, chk)
    ELSE EventBlobHeader_read(s, p)

\* EventBlobIter::new refusing a block without blobs.
EventBlobIter_new_RejectEmpty(block, data, chk) ==
    IF ~IsSmall(block.size) \/ ToNat(block.size) < block.header.size THEN Fail("Panic")
    ELSE IF ToNat(block.size) = block.header.size THEN Fail("AssertFail")
    ELSE Ok([data |-> data, position |-> 0, header |-> block.header,
             compressed_headers |-> (block.header.flags % 2) # 0,
             blob_size |-> ToNat(block.size) - block.header.size,
             prev_header |-> DefaultEventBlobHeader], 0)

\* EventBlobIter::new with a delta base that is not all zero.
EventBlobIter_new_NonZeroBase(block, data, chk) ==
    IF ~IsSmall(block.size) \/ ToNat(block.size) < block.header.size THEN Fail("Panic")
    ELSE Ok([data |-> data, position |-> 0, header |-> block.header,
             compressed_headers |-> (block.header.flags % 2) # 0,
             blob_size |-> ToNat(block.size) - block.header.size,
             prev_header |-> [DefaultEventBlobHeader EXCEPT !.sequence_number = W32(1),
                                                            !.timestamp = W64(1)]], 0)

\* EventBlobIter::new.  block.size - block.header.size is a u32
\* subtraction.  Both callers have computed the same difference before (as
\* u64, for read_exactly) and do not get here when it overflows.
EventBlobIter_new(block, data, chk) ==
    IF ~IsSmall(block.size) \/ ToNat(block.size) < block.header.size THEN Fail("Panic")
    ELSE Ok([data |-> data, position |-> 0, header |-> block.header,
             compressed_headers |-> (block.header.flags % 2) # 0,
             blob_size |-> ToNat(block.size) - block.header.size,
             prev_header |-> DefaultEventBlobHeader], 0)

\* ReadExactlyExt::read_exactly: read_exact(...).expect(...).
read_exactly(s, p, len) == Expect(ReadBytes(s, p, len))

\* The item of next with the padding skipped in compressed blocks too.
NextItem_PadAlways(it, header, payload, p) ==
    LET size == ToNat(header.payload_size)
        skip == IF size % 4 # 0 THEN 4 - (size % 4) ELSE 0
    IN  Ok([some |-> TRUE, header |-> header, payload |-> payload,
            iter |-> [it EXCEPT !.position = p + skip,
                                !.prev_header = IF it.compressed_headers
                                                THEN header ELSE @]], 0)

\* The item of <EventBlobIter as Iterator>::next and the iterator after it:
\* the position is past the payload and its padding (uncompressed blobs are
\* padded to 4 bytes), prev_header is the header of a compressed blob.
NextItem(it, header, payload, p) ==
    LET size == ToNat(header.payload_size)
        skip == IF ~it.compressed_headers /\ size % 4 # 0 THEN 4 - (size % 4) ELSE 0
    IN  Ok([some |-> TRUE, header |-> header, payload |-> payload,
            iter |-> [it EXCEPT !.position = p + skip,
                                !.prev_header = IF it.compressed_headers
                                                THEN header ELSE @]], 0)

\* <EventBlobIter as Iterator>::next ending the iteration after the first
\* blob of a buffer.
EventBlobIter_next_OneBlob(it, chk) ==
    IF it.position > 0
    THEN Ok([some |-> FALSE, iter |-> it], 0)
    ELSE Try(Expect(parse_header(it.data, it.position, it.prev_header,
                                 it.compressed_headers, chk)), LAMBDA h :
         IF ~IsSmall(h.v.payload_size) THEN Fail("Panic") ELSE
         Try(read_exactly(it.data, h.pos, ToNat(h.v.payload_size)), LAMBDA pl :
             NextItem(it, h.v, pl.v, pl.pos)))

\* <EventBlobIter as Iterator>::next.  The result's v is
\* [some, header, payload, iter]: the item, if any, and the iterator after
\* the call.  A failed header or payload read panics (expect).
EventBlobIter_next(it, chk) ==
    IF it.position >= it.blob_size
    THEN Ok([some |-> FALSE, iter |-> it], 0)
    ELSE Try(Expect(parse_header(it.data, it.position, it.prev_header,
                                 it.compressed_headers, chk)), LAMBDA h :
         IF ~IsSmall(h.v.payload_size) THEN Fail("Panic") ELSE
         Try(read_exactly(it.data, h.pos, ToNat(h.v.payload_size)), LAMBDA pl :
             NextItem(it, h.v, pl.v, pl.pos)))

---------------------------------------------------------------------------
(* Metadata definitions (nettrace/mod.rs) and the metadata registry.       *)
(* Option<T> is a sequence of at most one element: None is <<>>.           *)

None == <<>>
Some(x) == <<x>>

\* binrw NullWideString: u16 code units up to, and without, the first zero;
\* an I/O error when the bytes end before a zero unit.
NullWideString_read(s, p) ==
    LET IsZero(k) == s[p + 2 * k - 1] = 0 /\ s[p + 2 * k] = 0
        zeros == {k \in 1..((Len(s) - p) \div 2) : IsZero(k)}
    IN  IF zeros = {} THEN Fail("Io")
        ELSE LET n == CHOOSE k \in zeros : \A j \in zeros : k <= j
             IN  Ok([i \in 1..(n - 1) |-> s[p + 2 * i - 1] + 256 * s[p + 2 * i]],
                    p + 2 * n)

\* NullWideString::to_string: lossy UTF-16 decoding into code points; a
\* surrogate pair is one code point, a lone surrogate is U+FFFD.  A low
\* surrogate right after a high one is the second unit of a pair.
WideToString(u) ==
    LET IsHigh(x) == x >= 55296 /\ x <= 56319
        IsLow(x) == x >= 56320 /\ x <= 57343
        starts == SelectSeq([i \in 1..Len(u) |-> i],
                            LAMBDA i : ~(i > 1 /\ IsLow(u[i]) /\ IsHigh(u[i - 1])))
        CodePoint(i) ==
            IF IsHigh(u[i]) /\ i < Len(u) /\ IsLow(u[i + 1])
            THEN 65536 + (u[i] - 55296) * 1024 + (u[i + 1] - 56320)
            ELSE IF IsHigh(u[i]) \/ IsLow(u[i]) THEN 65533
            ELSE u[i]
    IN  [k \in 1..Len(starts) |-> CodePoint(starts[k])]

\* MetadataTypeCode: a u32 that must be one of the listed codes.
TypeCodeObject == W32(1)
TypeCodeArray == W32(19)
TypeCodeEmpty == W32(0)
IsMetadataTypeCode(w) == w[2] = 0 /\ w[1] \in ((0..16) \cup {18, 19})

MetadataTypeCode_read(s, p) ==
    Try(ReadU32(s, p), LAMBDA r :
        IF ~IsMetadataTypeCode(r.v) THEN Fail("NoVariantMatch") ELSE r)

RECURSIVE MetadataPayloadDefinition_read(_, _)
RECURSIVE MetadataFieldDefinition_read(_, _)
RECURSIVE ReadFieldDefinitions(_, _, _, _)

\* MetadataFieldDefinition: type_code, array_type_code (arrays only), a
\* nested definition (objects and arrays of objects only), field_name.
MetadataFieldDefinition_read(s, p) ==
    Try(MetadataTypeCode_read(s, p), LAMBDA tc :
    Try(IF tc.v = TypeCodeArray THEN MetadataTypeCode_read(s, tc.pos)
        ELSE Ok(TypeCodeEmpty, tc.pos), LAMBDA ac :
    Try(IF tc.v = TypeCodeObject \/ ac.v = TypeCodeObject
        THEN Try(MetadataPayloadDefinition_read(s, ac.pos),
                 LAMBDA d : Ok(Some(d.v), d.pos))
        ELSE Ok(None, ac.pos), LAMBDA df :
    Try(NullWideString_read(s, df.pos), LAMBDA nm :
        Ok([type_code |-> tc.v, array_type_code |-> ac.v,
            definition |-> df.v, field_name |-> nm.v], nm.pos)))))

ReadFieldDefinitions(s, p, n, acc) ==
    IF n = 0 THEN Ok(acc, p)
    ELSE Try(MetadataFieldDefinition_read(s, p), LAMBDA r :
             ReadFieldDefinitions(s, r.pos, n - 1, Append(acc, r.v)))

\* MetadataPayloadDefinition: field_count, then field_count fields.
MetadataPayloadDefinition_read(s, p) ==
    Try(ReadU32(s, p), LAMBDA fc :
    IF ~IsSmall(fc.v) THEN Fail("Io") ELSE
    Try(ReadFieldDefinitions(s, fc.pos, ToNat(fc.v), <<>>), LAMBDA fs :
        Ok([field_count |-> fc.v, fields |-> fs.v], fs.pos)))

\* MetadataPayloadDefinition::default().
DefaultPayloadDefinition == [field_count |-> W32(0), fields |-> <<>>]

\* MetadataDefinition: id, provider_name, event_id, event_name, keywords,
\* version, level, fields; opcode is not read (br(ignore)).
MetadataDefinition_read(s, p) ==
    LET id == ReadU32(s, p)
        pn == Then(id, LAMBDA q : NullWideString_read(s, q))
        ei == Then(pn, LAMBDA q : ReadU32(s, q))
        en == Then(ei, LAMBDA q : NullWideString_read(s, q))
        kw == Then(en, LAMBDA q : ReadU64(s, q))
        ve == Then(kw, LAMBDA q : ReadU32(s, q))
        lv == Then(ve, LAMBDA q : ReadU32(s, q))
        fd == Then(lv, LAMBDA q : MetadataPayloadDefinition_read(s, q))
    IN  IF id.ok /\ pn.ok /\ ei.ok /\ en.ok /\ kw.ok /\ ve.ok /\ lv.ok /\ fd.ok
        THEN Ok([id |-> id.v, provider_name |-> pn.v, event_id |-> ei.v,
                 event_name |-> en.v, keywords |-> kw.v, version |-> ve.v,
                 level |-> lv.v, fields |-> fd.v, opcode |-> None], fd.pos)
        ELSE fd

MetadataTagInvalid == 0
MetadataTagOpCode == 1
MetadataTagV2Params == 2

\* MetadataTag: a u8 that must be 0, 1 or 2.
MetadataTag_read(s, p) ==
    Try(ReadU8(s, p), LAMBDA r :
        IF r.v \notin {MetadataTagInvalid, MetadataTagOpCode, MetadataTagV2Params}
        THEN Fail("NoVariantMatch") ELSE r)

\* MetadataTaggedData: size, tag, then the opcode byte (tag OpCode) or a
\* field layout (tag V2Params).
MetadataTaggedData_read(s, p) ==
    Try(ReadU32(s, p), LAMBDA sz :
    Try(MetadataTag_read(s, sz.pos), LAMBDA tg :
    Try(IF tg.v = MetadataTagOpCode THEN ReadU8(s, tg.pos) ELSE Ok(0, tg.pos), LAMBDA op :
    Try(IF tg.v = MetadataTagV2Params THEN MetadataPayloadDefinition_read(s, op.pos)
        ELSE Ok(DefaultPayloadDefinition, op.pos), LAMBDA f2 :
        Ok([size |-> sz.v, tag |-> tg.v, opcode |-> op.v, fields_v2 |-> f2.v], f2.pos)))))

\* The inner loop taking a v2 layout whatever the v1 layout is.
RECURSIVE ReadTaggedExtensions_V2Always(_, _, _, _)
ReadTaggedExtensions_V2Always(payload, p, payload_size, def) ==
    IF ~(p < payload_size) THEN Ok(def, p)
    ELSE Try(MetadataTaggedData_read(payload, p), LAMBDA td :
         IF td.v.tag = MetadataTagOpCode
         THEN ReadTaggedExtensions_V2Always(payload, td.pos, payload_size,
                                            [def EXCEPT !.opcode = Some(td.v.opcode)])
         ELSE IF td.v.tag = MetadataTagV2Params
         THEN ReadTaggedExtensions_V2Always(payload, td.pos, payload_size,
                                            [def EXCEPT !.fields = td.v.fields_v2])
         ELSE ReadTaggedExtensions_V2Always(payload, td.pos, payload_size, def))

\* The inner loop of handle_metadata_block: tagged extensions while the
\* payload cursor is below payload_size.  assert_eq! panics.
RECURSIVE ReadTaggedExtensions(_, _, _, _)
ReadTaggedExtensions(payload, p, payload_size, def) ==
    IF ~(p < payload_size) THEN Ok(def, p)
    ELSE Try(MetadataTaggedData_read(payload, p), LAMBDA td :
         IF td.v.tag = MetadataTagOpCode
         THEN ReadTaggedExtensions(payload, td.pos, payload_size,
                                   [def EXCEPT !.opcode = Some(td.v.opcode)])
         ELSE IF td.v.tag = MetadataTagV2Params
         THEN IF def.fields.field_count # W32(0) THEN Fail("Panic")
              ELSE ReadTaggedExtensions(payload, td.pos, payload_size,
                                        [def EXCEPT !.fields = td.v.fields_v2])
         ELSE ReadTaggedExtensions(payload, td.pos, payload_size, def))


\* An insert that leaves the new entry alone in the map.
MapInsert_Sole(m, k, v) == [x \in {k} |-> v]

\* An insert that keeps the value a key already has.
MapInsert_KeepFirst(m, k, v) == [x \in DOMAIN m \cup {k} |-> IF x \in DOMAIN m THEN m[x] ELSE v]

\* HashMap::insert: the entry for key k becomes v.
MapInsert(m, k, v) == [x \in DOMAIN m \cup {k} |-> IF x = k THEN v ELSE m[x]]

EmptyMap == [x \in {} |-> 0]

\* `?` inside handle_metadata_block, whose result is [ok, err, map]: the
\* registry keeps the definitions inserted before a failure.
TryMap(r, map, K(_)) == IF r.ok THEN K(r) ELSE [ok |-> FALSE, err |-> r.err, map |-> map]

\* EventPipeParser::handle_metadata_block, on the registry.
RECURSIVE handle_metadata_block(_, _, _)
handle_metadata_block(metadata_map, iter, chk) ==
    TryMap(EventBlobIter_next(iter, chk), metadata_map, LAMBDA n :
    IF ~n.v.some THEN [ok |-> TRUE, err |-> "", map |-> metadata_map] ELSE
    TryMap(MetadataDefinition_read(n.v.payload, 0), metadata_map, LAMBDA d0 :
    TryMap(ReadTaggedExtensions(n.v.payload, d0.pos,
                                ToNat(n.v.header.payload_size), d0.v),
           metadata_map, LAMBDA d :
        handle_metadata_block(MapInsert(metadata_map, d.v.id, d.v), n.v.iter, chk))))

U32Max == <<65535, 65535>>

\* parse_event taking a blank definition for a metadata id the registry
\* does not hold.
parse_event_BlankDefinition(metadata_map, stack_map, header, payload) ==
    LET metadata_def == IF header.metadata_id \in DOMAIN metadata_map
                        THEN metadata_map[header.metadata_id]
                        ELSE [provider_name |-> <<>>, event_id |-> W32(0),
                              event_name |-> <<>>, keywords |-> W64(0),
                              version |-> W32(0), level |-> W32(0), opcode |-> None]
    IN  Ok([provider_name |-> WideToString(metadata_def.provider_name),
            event_id |-> metadata_def.event_id,
            event_name |-> IF Len(metadata_def.event_name) > 0
                           THEN Some(WideToString(metadata_def.event_name))
                           ELSE None,
            event_keywords |-> metadata_def.keywords,
            event_version |-> metadata_def.version,
            event_level |-> metadata_def.level,
            event_opcode |-> metadata_def.opcode,
            sequence_number |-> header.sequence_number,
            thread_id |-> header.thread_id,
            capture_thread_id |-> header.capture_thread_id,
            processor_number |-> IF header.processor_number # U32Max
                                 THEN Some(header.processor_number) ELSE None,
            stack |-> IF header.stack_id \in DOMAIN stack_map
                      THEN stack_map[header.stack_id] ELSE <<>>,
            timestamp |-> header.timestamp,
            activity_id |-> header.activity_id,
            related_activity_id |-> header.related_activity_id,
            payload |-> payload], 0)

\* EventPipeParser::parse_event.
parse_event(metadata_map, stack_map, header, payload) ==
    IF header.metadata_id \notin DOMAIN metadata_map THEN Fail("AssertFail")
    ELSE LET metadata_def == metadata_map[header.metadata_id] IN
         Ok([provider_name |-> WideToString(metadata_def.provider_name),
             event_id |-> metadata_def.event_id,
             event_name |-> IF Len(metadata_def.event_name) > 0
                            THEN Some(WideToString(metadata_def.event_name))
                            ELSE None,
             event_keywords |-> metadata_def.keywords,
             event_version |-> metadata_def.version,
             event_level |-> metadata_def.level,
             event_opcode |-> metadata_def.opcode,
             sequence_number |-> header.sequence_number,
             thread_id |-> header.thread_id,
             capture_thread_id |-> header.capture_thread_id,
             processor_number |-> IF header.processor_number # U32Max
                                  THEN Some(header.processor_number) ELSE None,
             stack |-> IF header.stack_id \in DOMAIN stack_map
                       THEN stack_map[header.stack_id] ELSE <<>>,
             timestamp |-> header.timestamp,
             activity_id |-> header.activity_id,
             related_activity_id |-> header.related_activity_id,
             payload |-> payload], 0)

---------------------------------------------------------------------------
(* EventPipeParser (nettrace/parser.rs).  The operators below work on the  *)
(* parser's fields as a record                                             *)
(*   [pos, metadata_map, stack_map, trace_info, cur_event_blob_iter]       *)
(* (pos is the position of the stream the parser owns) and return          *)
(*   [st |-> the fields after the call, ret |-> what the call returns]     *)
(* where ret is [kind, err, val] and kind is "Some" (an event), "None"     *)
(* (end of stream), "Info" (a trace object), "Err" (an error return value) *)
(* or "Panic" (the call does not return).                                  *)

Ret(kind, err, val) == [kind |-> kind, err |-> err, val |-> val]

\* What a failed read turns into at the entry point: a panic stays a
\* panic, every other failure is the Err the `?` returns.
RetOfFail(r) == IF r.err = "Panic" THEN Ret("Panic", "Panic", <<>>) ELSE Ret("Err", r.err, <<>>)

\* `?` in an entry point: the failure is what the call returns, and the
\* parser's fields stay as st.
TryRet(r, st, K(_)) == IF r.ok THEN K(r) ELSE [st |-> st, ret |-> RetOfFail(r)]

TypeTrace == <<84, 114, 97, 99, 101>>
TypeTraceObject == <<84, 114, 97, 99, 101, 79, 98, 106, 101, 99, 116>>
TypeMetadataBlock == <<77, 101, 116, 97, 100, 97, 116, 97, 66, 108, 111, 99, 107>>
TypeStackBlock == <<83, 116, 97, 99, 107, 66, 108, 111, 99, 107>>
TypeSPBlock == <<83, 80, 66, 108, 111, 99, 107>>
TypeEventBlock == <<69, 118, 101, 110, 116, 66, 108, 111, 99, 107>>

\* std::str::from_utf8 accepts the bytes.
RECURSIVE IsUtf8(_)
IsUtf8(b) ==
    LET Cont(i) == i <= Len(b) /\ b[i] >= 128 /\ b[i] <= 191
        Rest(n) == IsUtf8(SubSeq(b, n + 1, Len(b)))
    IN  IF b = <<>> THEN TRUE
        ELSE IF b[1] < 128 THEN Rest(1)
        ELSE IF b[1] >= 194 /\ b[1] <= 223 THEN Cont(2) /\ Rest(2)
        ELSE IF b[1] = 224 THEN Cont(2) /\ b[2] >= 160 /\ Cont(3) /\ Rest(3)
        ELSE IF b[1] = 237 THEN Cont(2) /\ b[2] <= 159 /\ Cont(3) /\ Rest(3)
        ELSE IF b[1] >= 225 /\ b[1] <= 239 THEN Cont(2) /\ Cont(3) /\ Rest(3)
        ELSE IF b[1] = 240 THEN Cont(2) /\ b[2] >= 144 /\ Cont(3) /\ Cont(4) /\ Rest(4)
        ELSE IF b[1] >= 241 /\ b[1] <= 243 THEN Cont(2) /\ Cont(3) /\ Cont(4) /\ Rest(4)
        ELSE IF b[1] = 244 THEN Cont(2) /\ b[2] <= 143 /\ Cont(3) /\ Cont(4) /\ Rest(4)
        ELSE FALSE

\* read_object_end taking any tag for EndObject.
read_object_end_AnyTag(s, p) ==
    Try(NettraceTag_read(s, p), LAMBDA end_tag : Ok(TRUE, end_tag.pos))

\* EventPipeParser::read_object_end: [ok, err, pos].
read_object_end(s, p) ==
    Try(NettraceTag_read(s, p), LAMBDA end_tag :
        IF end_tag.v # TagEndObject THEN Fail("AssertFail") ELSE Ok(TRUE, end_tag.pos))

\* advance_to_next_object without the NullReference case.
advance_to_next_object_NoNull(s, p) ==
    Try(NettraceTag_read(s, p), LAMBDA start_tag :
    IF start_tag.v # TagBeginPrivateObject THEN Fail("AssertFail")
    ELSE Try(NettraceTypeObject_read(s, start_tag.pos), LAMBDA obj_type :
             Ok(Some(obj_type.v), obj_type.pos)))

\* EventPipeParser::advance_to_next_object: Ok(None) at NullReference,
\* Ok(Some(type object)) after BeginPrivateObject and a type object.
advance_to_next_object(s, p) ==
    Try(NettraceTag_read(s, p), LAMBDA start_tag :
    IF start_tag.v = TagNullReference THEN Ok(None, start_tag.pos)
    ELSE IF start_tag.v # TagBeginPrivateObject THEN Fail("AssertFail")
    ELSE Try(NettraceTypeObject_read(s, start_tag.pos), LAMBDA obj_type :
             Ok(Some(obj_type.v), obj_type.pos)))

\* The StackBlock arm's loop without the increment: every stack of the
\* block goes under first_id, the last one stays.
InsertStacks_SameId(stack_map, stack_id, stacks, chk) ==
    IF stacks = <<>> THEN [ok |-> TRUE, map |-> stack_map]
    ELSE [ok |-> TRUE, map |-> MapInsert(stack_map, stack_id, stacks[Len(stacks)].stack)]

\* The StackBlock arm's loop: insert(stack_id, stack); stack_id += 1.
\* [ok, map]: the increment overflows at u32::MAX in a checked build.
RECURSIVE InsertStacks(_, _, _, _)
InsertStacks(stack_map, stack_id, stacks, chk) ==
    IF stacks = <<>> THEN [ok |-> TRUE, map |-> stack_map]
    ELSE IF stack_id = U32Max /\ chk
    THEN [ok |-> FALSE, map |-> MapInsert(stack_map, stack_id, Head(stacks).stack)]
    ELSE InsertStacks(MapInsert(stack_map, stack_id, Head(stacks).stack),
                      Succ32(stack_id), Tail(stacks), chk)

\* The block arms' read of the block and of its size - header.size bytes
\* (a u64 subtraction; wrapped, it asks for more bytes than can be
\* allocated).  [ok, err, v |-> [block, data], pos].
ReadBlockAndData(s, p, chk) ==
    Try(NettraceEventBlock_read(s, p, chk), LAMBDA b :
    IF ~IsSmall(b.v.size) \/ ToNat(b.v.size) < b.v.header.size THEN Fail("Panic") ELSE
    Try(read_exactly(s, b.pos, ToNat(b.v.size) - b.v.header.size), LAMBDA d :
        Ok([block |-> b.v, data |-> d.v], d.pos)))

\* What an arm of the match in next_event leaves: [ok, err, st].
ArmOk(st) == [ok |-> TRUE, err |-> "", st |-> st]
ArmErr(err, st) == [ok |-> FALSE, err |-> err, st |-> st]

\* `?` inside an arm, and after one.
TryArm(r, st, K(_)) == IF r.ok THEN K(r) ELSE ArmErr(r.err, st)
AfterArm(arm, K(_)) == IF arm.ok THEN K(arm) ELSE [st |-> arm.st, ret |-> RetOfFail(arm)]

\* The arms' last step: the registry handle_metadata_block has filled
\* (result h), and the stacks the StackBlock loop has inserted (result i).
MetadataMapSet(st, h) == [ok |-> h.ok, err |-> h.err, st |-> [st EXCEPT !.metadata_map = h.map]]
StackMapSet(st, i) ==
    [ok |-> i.ok, err |-> IF i.ok THEN "" ELSE "Panic", st |-> [st EXCEPT !.stack_map = i.map]]

\* The match on the type name with an arm that passes over any other name.
MatchObjectType_SkipUnknown(s, st, name, chk) ==
    IF ~IsUtf8(name) THEN ArmErr("Panic", st)
    ELSE IF name = TypeTrace
    THEN TryArm(NettraceTraceObject_read(s, st.pos), st, LAMBDA t :
             ArmOk([st EXCEPT !.pos = t.pos, !.trace_info = Some(t.v)]))
    ELSE IF name = TypeMetadataBlock
    THEN TryArm(ReadBlockAndData(s, st.pos, chk), st, LAMBDA b :
         TryArm(EventBlobIter_new(b.v.block, b.v.data, chk),
                [st EXCEPT !.pos = b.pos], LAMBDA it :
             MetadataMapSet([st EXCEPT !.pos = b.pos],
                            handle_metadata_block(st.metadata_map, it.v, chk))))
    ELSE IF name = TypeStackBlock
    THEN TryArm(StackBlock_read(s, st.pos), st, LAMBDA b :
             StackMapSet([st EXCEPT !.pos = b.pos],
                         InsertStacks(st.stack_map, b.v.first_id, b.v.stacks, chk)))
    ELSE IF name = TypeSPBlock
    THEN TryArm(SequencePointBlock_read(s, st.pos), st, LAMBDA b :
             ArmOk([st EXCEPT !.pos = b.pos]))
    ELSE IF name = TypeEventBlock
    THEN TryArm(ReadBlockAndData(s, st.pos, chk), st, LAMBDA b :
         TryArm(EventBlobIter_new(b.v.block, b.v.data, chk),
                [st EXCEPT !.pos = b.pos], LAMBDA it :
             ArmOk([st EXCEPT !.pos = b.pos, !.cur_event_blob_iter = Some(it.v)])))
    ELSE ArmOk(st)

\* The match on the type name; as_str() panics on a name that is not UTF-8.
MatchObjectType(s, st, name, chk) ==
    IF ~IsUtf8(name) THEN ArmErr("Panic", st)
    ELSE IF name = TypeTrace
    THEN TryArm(NettraceTraceObject_read(s, st.pos), st, LAMBDA t :
             ArmOk([st EXCEPT !.pos = t.pos, !.trace_info = Some(t.v)]))
    ELSE IF name = TypeMetadataBlock
    THEN TryArm(ReadBlockAndData(s, st.pos, chk), st, LAMBDA b :
         TryArm(EventBlobIter_new(b.v.block, b.v.data, chk),
                [st EXCEPT !.pos = b.pos], LAMBDA it :
             MetadataMapSet([st EXCEPT !.pos = b.pos],
                            handle_metadata_block(st.metadata_map, it.v, chk))))
    ELSE IF name = TypeStackBlock
    THEN TryArm(StackBlock_read(s, st.pos), st, LAMBDA b :
             StackMapSet([st EXCEPT !.pos = b.pos],
                         InsertStacks(st.stack_map, b.v.first_id, b.v.stacks, chk)))
    ELSE IF name = TypeSPBlock
    THEN TryArm(SequencePointBlock_read(s, st.pos), st, LAMBDA b :
             ArmOk([st EXCEPT !.pos = b.pos]))
    ELSE IF name = TypeEventBlock
    THEN TryArm(ReadBlockAndData(s, st.pos, chk), st, LAMBDA b :
         TryArm(EventBlobIter_new(b.v.block, b.v.data, chk),
                [st EXCEPT !.pos = b.pos], LAMBDA it :
             ArmOk([st EXCEPT !.pos = b.pos, !.cur_event_blob_iter = Some(it.v)])))
    ELSE ArmErr("AssertFail", st)

RECURSIVE next_event(_, _, _)
RECURSIVE ObjectLoop(_, _, _)

\* One iteration of the loop of next_event, up to its return, its
\* `continue` (ret.kind "Continue": the object has ended with
\* read_object_end) or its `return self.next_event()` (ret.kind
\* "NextEvent": an EventBlock has been read and its iterator stored).
LoopBody(s, st, chk) ==
    TryRet(advance_to_next_object(s, st.pos), st, LAMBDA a :
    IF a.v = None
    THEN [st |-> [st EXCEPT !.pos = a.pos], ret |-> Ret("None", "", <<>>)]
    ELSE AfterArm(MatchObjectType(s, [st EXCEPT !.pos = a.pos], a.v[1].type_name, chk),
                  LAMBDA arm :
         IF a.v[1].type_name = TypeEventBlock
         THEN [st |-> arm.st, ret |-> Ret("NextEvent", "", <<>>)]
         ELSE TryRet(read_object_end(s, arm.st.pos), arm.st, LAMBDA e :
                  [st |-> [arm.st EXCEPT !.pos = e.pos], ret |-> Ret("Continue", "", <<>>)])))

\* What follows an iteration b of the loop.
LoopNext(s, b, chk) ==
    IF b.ret.kind = "Continue" THEN ObjectLoop(s, b.st, chk)
    ELSE IF b.ret.kind = "NextEvent" THEN next_event(s, b.st, chk)
    ELSE b

\* The loop of next_event: objects are read until an EventBlock (which
\* returns next_event()), the end of the stream or a failure.
ObjectLoop(s, st, chk) == LoopNext(s, LoopBody(s, st, chk), chk)

\* EventPipeParser::next_event.
next_event(s, st, chk) ==
    IF st.cur_event_blob_iter # None
    THEN TryRet(EventBlobIter_next(st.cur_event_blob_iter[1], chk), st, LAMBDA n :
         IF n.v.some
         THEN TryRet(parse_event(st.metadata_map, st.stack_map, n.v.header, n.v.payload),
                     [st EXCEPT !.cur_event_blob_iter = Some(n.v.iter)], LAMBDA ev :
                  [st |-> [st EXCEPT !.cur_event_blob_iter = Some(n.v.iter)],
                   ret |-> Ret("Some", "", ev.v)])
         ELSE TryRet(read_object_end(s, st.pos),
                     [st EXCEPT !.cur_event_blob_iter = None], LAMBDA e :
                  ObjectLoop(s, [st EXCEPT !.cur_event_blob_iter = None, !.pos = e.pos],
                             chk)))
    ELSE ObjectLoop(s, st, chk)

\* EventPipeParser::trace_info.
trace_info(s, st) ==
    IF st.trace_info # None THEN [st |-> st, ret |-> Ret("Info", "", st.trace_info[1])]
    ELSE TryRet(advance_to_next_object(s, st.pos), st, LAMBDA a :
    IF a.v = None
    THEN [st |-> [st EXCEPT !.pos = a.pos], ret |-> Ret("Err", "AssertFail", <<>>)]
    ELSE IF ~IsUtf8(a.v[1].type_name)
    THEN [st |-> [st EXCEPT !.pos = a.pos], ret |-> Ret("Panic", "Panic", <<>>)]
    ELSE IF a.v[1].type_name # TypeTraceObject
    THEN [st |-> [st EXCEPT !.pos = a.pos], ret |-> Ret("Err", "AssertFail", <<>>)]
    ELSE TryRet(NettraceTraceObject_read(s, a.pos), [st EXCEPT !.pos = a.pos], LAMBDA t :
         TryRet(read_object_end(s, t.pos),
                [st EXCEPT !.pos = t.pos, !.trace_info = Some(t.v)], LAMBDA e :
             [st |-> [st EXCEPT !.pos = e.pos, !.trace_info = Some(t.v)],
              ret |-> Ret("Info", "", t.v)])))

\* EventPipeParser::new without the comparison of the identifier.
EventPipeParser_new_NoIdentCheck(s) ==
    Try(NettraceHeader_read(s, 0), LAMBDA file_header :
        Ok([pos |-> file_header.pos, metadata_map |-> EmptyMap,
            stack_map |-> EmptyMap, trace_info |-> None,
            cur_event_blob_iter |-> None], file_header.pos))

\* EventPipeParser::new: [ok, err, v |-> the parser's fields].
EventPipeParser_new(s) ==
    Try(NettraceHeader_read(s, 0), LAMBDA file_header :
        IF file_header.v # IdentFastSerialization THEN Fail("BadMagic")
        ELSE Ok([pos |-> file_header.pos, metadata_map |-> EmptyMap,
                 stack_map |-> EmptyMap, trace_info |-> None,
                 cur_event_blob_iter |-> None], file_header.pos))

---------------------------------------------------------------------------
(* The normalizer of the EventPipe path (coreclr/eventpipe.rs) and the     *)
(* payload structures it reads (coreclr/events.rs, coreclr/enums.rs).      *)

\* w >= n for a u32 w and a small number n.
GeU32(w, n) == w[2] > 0 \/ w[1] >= n

\* A binrw enum with repr = u32 whose discriminants are 0..max: any other
\* value fails the read.
ReadEnumU32(s, p, max) ==
    Try(ReadU32(s, p), LAMBDA r :
        IF r.v[2] # 0 \/ r.v[1] > max THEN Fail("NoVariantMatch") ELSE r)

GcReasonMax == 9
\* GcReason::Empty
GcReasonEmpty == 3
GcAllocationKindMax == 2

\* parse_null_wide_string_to_string
parse_null_wide_string_to_string(s, p) ==
    Try(NullWideString_read(s, p), LAMBDA r :
        IF r.v = <<>> THEN Ok(<<>>, r.pos) ELSE Ok(WideToString(r.v), r.pos))

\* One field of a payload structure: [name, type, present, optional].
\* A field whose br(if(...)) condition is false reads nothing and is None
\* (an Option) or the type's default.
Field(name, type, present, optional) ==
    [name |-> name, type |-> type, present |-> present, optional |-> optional]

ReadFieldValue(s, p, type) ==
    CASE type = "u16" -> ReadU16(s, p)
      [] type = "u32" -> ReadU32(s, p)
      [] type = "u64" -> ReadU64(s, p)
      [] type = "bytes16" -> ReadBytes(s, p, 16)
      [] type = "wstr" -> parse_null_wide_string_to_string(s, p)
      [] type = "GcReason" -> ReadEnumU32(s, p, GcReasonMax)
      [] type = "GcAllocationKind" -> ReadEnumU32(s, p, GcAllocationKindMax)

DefaultFieldValue(type) ==
    CASE type = "u16" -> 0
      [] type = "u32" -> W32(0)
      [] type = "u64" -> W64(0)
      [] type = "bytes16" -> ZeroBytes16
      [] type = "wstr" -> <<>>
      [] type = "GcReason" -> W32(0)
      [] type = "GcAllocationKind" -> W32(0)

\* binrw's derived read of a structure: the fields in declaration order.
\* The value is a function from field names to values.
RECURSIVE ReadStruct(_, _, _, _)
ReadStruct(s, p, layout, acc) ==
    IF layout = <<>> THEN Ok(acc, p)
    ELSE IF ~Head(layout).present
    THEN ReadStruct(s, p, Tail(layout),
                    MapInsert(acc, Head(layout).name,
                              IF Head(layout).optional THEN None
                              ELSE DefaultFieldValue(Head(layout).type)))
    ELSE Try(ReadFieldValue(s, p, Head(layout).type), LAMBDA r :
             ReadStruct(s, r.pos, Tail(layout),
                        MapInsert(acc, Head(layout).name,
                                  IF Head(layout).optional THEN Some(r.v) ELSE r.v)))

ModuleLoadUnloadEvent(version, app_domain) ==
    << Field("module_id", "u64", TRUE, FALSE),
       Field("assembly_id", "u64", TRUE, FALSE),
       Field("app_domain_id", "u64", app_domain, TRUE),
       Field("module_flags", "u32", TRUE, FALSE),
       Field("_reserved1", "u32", TRUE, FALSE),
       Field("module_il_path", "wstr", TRUE, FALSE),
       Field("module_native_path", "wstr", TRUE, FALSE),
       Field("clr_instance_id", "u16", GeU32(version, 1), TRUE),
       Field("managed_pdb_signature", "bytes16", GeU32(version, 2), FALSE),
       Field("managed_pdb_age", "u32", GeU32(version, 2), FALSE),
       Field("managed_pdb_build_path", "wstr", GeU32(version, 2), FALSE),
       Field("native_pdb_signature", "bytes16", GeU32(version, 2), FALSE),
       Field("native_pdb_age", "u32", GeU32(version, 2), FALSE),
       Field("native_pdb_build_path", "wstr", GeU32(version, 2), FALSE) >>


\* A method structure whose re_jit_id is gated on version 1.
MethodLoadUnloadEvent_ReJitFromV1(version, verbose) ==
    << Field("method_id", "u64", TRUE, FALSE),
       Field("module_id", "u64", TRUE, FALSE),
       Field("method_start_address", "u64", TRUE, FALSE),
       Field("method_size", "u32", TRUE, FALSE),
       Field("method_token", "u32", TRUE, FALSE),
       Field("method_flags", "u32", TRUE, FALSE),
       Field("method_namespace", "wstr", verbose, FALSE),
       Field("method_name", "wstr", verbose, FALSE),
       Field("method_signature", "wstr", verbose, FALSE),
       Field("clr_instance_id", "u16", GeU32(version, 1), TRUE),
       Field("re_jit_id", "u64", GeU32(version, 1), TRUE) >>

MethodLoadUnloadEvent(version, verbose) ==
    << Field("method_id", "u64", TRUE, FALSE),
       Field("module_id", "u64", TRUE, FALSE),
       Field("method_start_address", "u64", TRUE, FALSE),
       Field("method_size", "u32", TRUE, FALSE),
       Field("method_token", "u32", TRUE, FALSE),
       Field("method_flags", "u32", TRUE, FALSE),
       Field("method_namespace", "wstr", verbose, FALSE),
       Field("method_name", "wstr", verbose, FALSE),
       Field("method_signature", "wstr", verbose, FALSE),
       Field("clr_instance_id", "u16", GeU32(version, 1), TRUE),
       Field("re_jit_id", "u64", GeU32(version, 2), TRUE) >>

GcTriggeredEvent(version) ==
    << Field("reason", "GcReason", TRUE, FALSE),
       Field("clr_instance_id", "u16", TRUE, FALSE) >>

GcAllocationTickEvent(version) ==
    << Field("allocation_amount", "u32", TRUE, FALSE),
       Field("allocation_kind", "GcAllocationKind", TRUE, FALSE),
       Field("clr_instance_id", "u16", TRUE, FALSE),
       Field("allocation_amount64", "u64", GeU32(version, 2), FALSE),
       Field("type_id", "u64", GeU32(version, 2), FALSE),
       Field("type_name", "wstr", GeU32(version, 2), FALSE),
       Field("heap_index", "u32", GeU32(version, 2), FALSE),
       Field("address", "u64", GeU32(version, 3), TRUE),
       Field("object_size", "u64", GeU32(version, 4), TRUE) >>

GcSampledObjectAllocationEvent(version) ==
    << Field("address", "u64", TRUE, FALSE),
       Field("type_id", "u64", TRUE, FALSE),
       Field("object_count_for_type_sample", "u32", TRUE, FALSE),
       Field("total_size_for_type_sample", "u64", TRUE, FALSE),
       Field("clr_instance_id", "u16", TRUE, FALSE) >>

ReadyToRunGetEntryPointEvent(version) ==
    << Field("method_id", "u64", TRUE, FALSE),
       Field("method_namespace", "wstr", TRUE, FALSE),
       Field("method_name", "wstr", TRUE, FALSE),
       Field("method_signature", "wstr", TRUE, FALSE),
       Field("entry_point", "u64", TRUE, FALSE),
       Field("clr_instance_id", "u16", TRUE, FALSE) >>

ProviderDotNETRuntime ==
    <<77, 105, 99, 114, 111, 115, 111, 102, 116, 45, 87, 105, 110, 100, 111, 119,
      115, 45, 68, 111, 116, 78, 69, 84, 82, 117, 110, 116, 105, 109, 101>>
ProviderDotNETRuntimeRundown == ProviderDotNETRuntime \o <<82, 117, 110, 100, 111, 119, 110>>


\* Metadata that keeps the whole thread id.
to_event_metadata_WholeThreadId(event, is_rundown) ==
    [timestamp |-> event.timestamp,
     process_id |-> U32Max,
     thread_id |-> event.thread_id,
     stack |-> None,
     is_rundown |-> is_rundown]

\* to_event_metadata
to_event_metadata(event, is_rundown) ==
    [timestamp |-> event.timestamp,
     process_id |-> U32Max,
     thread_id |-> TruncU32(event.thread_id),
     stack |-> None,
     is_rundown |-> is_rundown]

\* EventMetadata::with_pid
with_pid(meta, pid) == [meta EXCEPT !.process_id = pid]

\* One arm of the event-id match: read_le_args(...).unwrap(), then
\* Some((meta, variant(ev))).  The result is [kind, val]: "Some" with
\* [meta, variant, ev], "None", or "Panic" (unwrap of a failed read).
Unwrap(r, K(_)) == IF r.ok THEN K(r) ELSE [kind |-> "Panic", val |-> <<>>]

DecodeArm(event, meta, variant, layout) ==
    Unwrap(ReadStruct(event.payload, 0, layout, EmptyMap), LAMBDA r :
        [kind |-> "Some", val |-> [meta |-> meta, variant |-> variant, ev |-> r.v]])

DecodeNone == [kind |-> "None", val |-> <<>>]


\* A regular decoder that reads every id it has no arm for as GcTriggered.
decode_coreclr_regular_event_DefaultGc(event) ==
    LET meta == to_event_metadata(event, FALSE)
        v == event.event_version
        id == event.event_id
    IN  CASE id \in {W32(151), W32(152), W32(153)} ->
                 DecodeArm(event, meta, IF id = W32(153) THEN "ModuleUnload" ELSE "ModuleLoad",
                           ModuleLoadUnloadEvent(v, id = W32(151)))
          [] id = W32(159) -> DecodeArm(event, meta, "ReadyToRunGetEntryPoint",
                                        ReadyToRunGetEntryPointEvent(v))
          [] id \in {W32(141), W32(143)} ->
                 DecodeArm(event, meta, "MethodLoad", MethodLoadUnloadEvent(v, id = W32(143)))
          [] id \in {W32(142), W32(144)} ->
                 DecodeArm(event, meta, "MethodUnload", MethodLoadUnloadEvent(v, id = W32(144)))
          [] id = W32(10) -> DecodeArm(event, meta, "GcAllocationTick", GcAllocationTickEvent(v))
          [] id \in {W32(20), W32(30)} ->
                 DecodeArm(event, meta, "GcSampledObjectAllocation",
                           GcSampledObjectAllocationEvent(v))
          [] OTHER -> DecodeArm(event, meta, "GcTriggered", GcTriggeredEvent(v))

\* decode_coreclr_regular_event
decode_coreclr_regular_event(event) ==
    LET meta == to_event_metadata(event, FALSE)
        v == event.event_version
        id == event.event_id
    IN  CASE id = W32(151) -> DecodeArm(event, meta, "ModuleLoad", ModuleLoadUnloadEvent(v, TRUE))
          [] id = W32(152) -> DecodeArm(event, meta, "ModuleLoad", ModuleLoadUnloadEvent(v, FALSE))
          [] id = W32(153) -> DecodeArm(event, meta, "ModuleUnload", ModuleLoadUnloadEvent(v, FALSE))
          [] id = W32(159) -> DecodeArm(event, meta, "ReadyToRunGetEntryPoint",
                                        ReadyToRunGetEntryPointEvent(v))
          [] id = W32(141) -> DecodeArm(event, meta, "MethodLoad", MethodLoadUnloadEvent(v, FALSE))
          [] id = W32(142) -> DecodeArm(event, meta, "MethodUnload", MethodLoadUnloadEvent(v, FALSE))
          [] id = W32(143) -> DecodeArm(event, meta, "MethodLoad", MethodLoadUnloadEvent(v, TRUE))
          [] id = W32(144) -> DecodeArm(event, meta, "MethodUnload", MethodLoadUnloadEvent(v, TRUE))
          [] id = W32(35) -> DecodeArm(event, meta, "GcTriggered", GcTriggeredEvent(v))
          [] id = W32(10) -> DecodeArm(event, meta, "GcAllocationTick", GcAllocationTickEvent(v))
          [] id \in {W32(20), W32(30)} ->
                 DecodeArm(event, meta, "GcSampledObjectAllocation",
                           GcSampledObjectAllocationEvent(v))
          [] OTHER -> DecodeNone


\* A rundown decoder that reads id 144 as the non-verbose structure.
decode_coreclr_rundown_event_NotVerbose(event) ==
    LET meta == to_event_metadata(event, TRUE) IN
    IF event.event_id = W32(144)
    THEN DecodeArm(event, meta, "MethodDCEnd", MethodLoadUnloadEvent(event.event_version, FALSE))
    ELSE DecodeNone

\* decode_coreclr_rundown_event
decode_coreclr_rundown_event(event) ==
    LET meta == to_event_metadata(event, TRUE) IN
    IF event.event_id = W32(144)
    THEN DecodeArm(event, meta, "MethodDCEnd", MethodLoadUnloadEvent(event.event_version, TRUE))
    ELSE DecodeNone


\* A dispatch that sends both providers to the regular decoder.
decode_coreclr_event_RegularOnly(event) ==
    IF event.provider_name \in {ProviderDotNETRuntime, ProviderDotNETRuntimeRundown}
    THEN decode_coreclr_regular_event(event)
    ELSE DecodeNone

\* decode_coreclr_event
decode_coreclr_event(event) ==
    IF event.provider_name = ProviderDotNETRuntime THEN decode_coreclr_regular_event(event)
    ELSE IF event.provider_name = ProviderDotNETRuntimeRundown
    THEN decode_coreclr_rundown_event(event)
    ELSE DecodeNone

\* decode_event: DecodedEvent::CoreClrEvent(x) for Some(x), UnknownEvent
\* for None and for every other provider.
decode_event(event) ==
    IF event.provider_name \in {ProviderDotNETRuntime, ProviderDotNETRuntimeRundown}
    THEN LET r == decode_coreclr_event(event) IN
         CASE r.kind = "Some" -> [kind |-> "CoreClrEvent", val |-> r.val]
           [] r.kind = "None" -> [kind |-> "UnknownEvent", val |-> <<>>]
           [] OTHER -> r
    ELSE [kind |-> "UnknownEvent", val |-> <<>>]


---------------------------------------------------------------------------
(* The ETW converter (coreclr/etw.rs).  A row is what the TypedEvent and   *)
(* its Parser give: [provider, task, opcode, timestamp, pid, tid, fields,  *)
(* buffer], the name already split at its two slashes.  A task or opcode   *)
(* name is [text, padded]: the text without trailing blanks, and whether   *)
(* blanks follow it.  `fields` maps the names of the row's schema to       *)
(* values, `buffer` is the user data the parser has not consumed.          *)

EtwName(text, padded) == [text |-> text, padded |-> padded]

\* EventMetadata::with_stack
with_stack(meta, stack) == [meta EXCEPT !.stack = Some(stack)]

\* The names after the block that converts unmerged names (those with
\* trailing blanks) to the merged ones: <<task, opcode>> as texts.
MergedNames(task, opcode) ==
    IF ~(task.padded \/ opcode.padded) THEN <<task.text, opcode.text>>
    ELSE LET t == task.text
             o == opcode.text
         IN  CASE t = "Method" ->
                    <<"CLRMethod",
                      CASE o = "LoadVerbose" -> "MethodLoadVerbose"
                        [] o = "UnloadVerbose" -> "MethodUnloadVerbose"
                        [] o = "DCStartVerbose" -> "MethodDCStartVerbose"
                        [] o = "DCEndVerbose" -> "MethodDCEndVerbose"
                        [] o = "JittingStarted" -> "MethodJittingStarted"
                        [] OTHER -> o>>
               [] t = "Loader" -> <<"CLRLoader", o>>
               [] t = "Runtime" -> <<"CLRRuntimeInformation", o>>
               [] t = "GC" ->
                    <<"GarbageCollection",
                      CASE o = "Start" -> "win:Start"
                        [] o = "Stop" -> "win:Stop"
                        [] o = "RestartEEStart" -> "GCRestartEEBegin"
                        [] o = "RestartEEStop" -> "GCRestartEEEnd"
                        [] o = "SuspendEEStart" -> "GCSuspendEEBegin"
                        [] o = "SuspendEEStop" -> "GCSuspendEEEnd"
                        [] OTHER -> o>>
               [] t = "ClrStack" ->
                    <<"CLRStack", IF o = "Walk" THEN "CLRStackWalk" ELSE o>>
               [] OTHER -> <<t, o>>

\* u64::from_le_bytes
u64_from_le_bytes(c) ==
    <<c[1] + 256 * c[2], c[3] + 256 * c[4], c[5] + 256 * c[6], c[7] + 256 * c[8]>>

\* chunks_exact(8): the whole 8-byte chunks, a shorter rest left out.
chunks_exact8(bytes) ==
    [i \in 1..(Len(bytes) \div 8) |-> SubSeq(bytes, 8 * i - 7, 8 * i)]


\* The addresses of the buffer before those of the `Stack` field.
StackWalkAddresses_BufferFirst(row) ==
    LET chunks == chunks_exact8(row.buffer) \o chunks_exact8(row.fields["Stack"]) IN
    [i \in 1..Len(chunks) |-> u64_from_le_bytes(chunks[i])]

\* The addresses of a stack-walk row: those of the `Stack` field, then
\* those of the buffer.
StackWalkAddresses(row) ==
    LET chunks == chunks_exact8(row.fields["Stack"]) \o chunks_exact8(row.buffer) IN
    [i \in 1..Len(chunks) |-> u64_from_le_bytes(chunks[i])]

\* parser.try_parse(name).ok()
try_parse(row, name) ==
    IF name \in DOMAIN row.fields THEN Some(row.fields[name]) ELSE None

\* FromPrimitive::from_u32 of an enumeration with the values 0..max
from_u32(v, max) == IF v[2] = 0 /\ v[1] <= max THEN Some(v) ELSE None

\* GcType::BlockingDuringBackground
GcTypeMax == 2

\* GcReason::from_u32(reason).unwrap_or_else(|| GcReason::Empty)
GcReasonOrEmpty(v) ==
    IF from_u32(v, GcReasonMax) = None THEN W32(GcReasonEmpty) ELSE v

EtwEvent(variant, ev) == Some([variant |-> variant, ev |-> ev])


\* A match that decodes no row.
EtwNewEvent_Nothing(row, task, opcode) == None

\* The match on (task, opcode): Some([variant, ev]) or None.
EtwNewEvent(row, task, opcode) ==
    LET f == row.fields IN
    CASE task \in {"CLRMethod", "CLRMethodRundown"}
         /\ opcode \in {"MethodLoadVerbose", "MethodDCStartVerbose", "MethodDCEndVerbose"} ->
            EtwEvent("MethodLoad",
                     [module_id |-> f["ModuleID"],
                      method_start_address |-> f["MethodStartAddress"],
                      method_size |-> f["MethodSize"],
                      method_name |-> f["MethodName"],
                      method_namespace |-> f["MethodNamespace"],
                      method_signature |-> f["MethodSignature"],
                      method_id |-> f["MethodID"],
                      method_token |-> f["MethodToken"],
                      method_flags |-> f["MethodFlags"],
                      clr_instance_id |-> try_parse(row, "ClrInstanceID"),
                      re_jit_id |-> try_parse(row, "ReJITID")])
      [] task = "GarbageCollection" /\ opcode = "GCSampledObjectAllocation" ->
            EtwEvent("GcSampledObjectAllocation",
                     [address |-> f["Address"],
                      type_id |-> f["TypeID"],
                      object_count_for_type_sample |-> f["ObjectCountForTypeSample"],
                      total_size_for_type_sample |-> f["TotalSizeForTypeSample"],
                      clr_instance_id |-> f["ClrInstanceID"]])
      [] task = "GarbageCollection" /\ opcode = "Triggered" ->
            EtwEvent("GcTriggered",
                     [reason |-> GcReasonOrEmpty(f["Reason"]), clr_instance_id |-> 0])
      [] task = "GarbageCollection" /\ opcode = "win:Start" ->
            EtwEvent("GcStart",
                     [count |-> f["Count"],
                      depth |-> try_parse(row, "Depth"),
                      reason |-> GcReasonOrEmpty(f["Reason"]),
                      gc_type |-> IF try_parse(row, "Type") = None THEN None
                                  ELSE from_u32(f["Type"], GcTypeMax),
                      clr_instance_id |-> try_parse(row, "ClrInstanceID"),
                      client_sequence_number |-> try_parse(row, "ClientSequenceNumber")])
      [] task = "GarbageCollection" /\ opcode = "win:Stop" ->
            EtwEvent("GcEnd",
                     [count |-> f["Count"],
                      depth |-> f["Depth"],
                      reason |-> IF try_parse(row, "Reason") = None THEN None
                                 ELSE from_u32(f["Reason"], GcReasonMax)])
      [] OTHER -> None

\* HashMap::remove

\* A removal that leaves the map as it is.
MapRemove_Keep(m, k) == m

MapRemove(m, k) == [x \in DOMAIN m \ {k} |-> m[x]]

\* CoreClrEtwConverter::etw_event_to_coreclr_event: [self, ret], ret being
\* [kind, val] with kind "Some" (val the pair [meta, variant, ev]), "None"
\* or "Panic".
etw_event_to_coreclr_event(self, row) ==
    IF row.provider \notin {ProviderDotNETRuntime, ProviderDotNETRuntimeRundown}
    THEN [self |-> self, ret |-> [kind |-> "Panic", val |-> <<>>]]
    ELSE
    LET names == MergedNames(row.task, row.opcode)
        task == names[1]
        opcode == names[2]
        tid == row.tid
        has_pending == tid \in DOMAIN self.last_event_on_thread
        removed == [self EXCEPT !.last_event_on_thread = MapRemove(@, tid)]
        pending_ret ==
            IF has_pending
            THEN [kind |-> "Some", val |-> self.last_event_on_thread[tid]]
            ELSE [kind |-> "None", val |-> <<>>]
    IN  IF task = "CLRStack" /\ opcode = "CLRStackWalk"
        THEN IF ~has_pending
             THEN [self |-> removed, ret |-> [kind |-> "None", val |-> <<>>]]
             ELSE [self |-> removed,
                   ret |-> [kind |-> "Some",
                            val |-> [pending_ret.val EXCEPT
                                       !.meta = with_stack(@, StackWalkAddresses(row))]]]
        ELSE LET common == [timestamp |-> row.timestamp, process_id |-> row.pid,
                            thread_id |-> tid, stack |-> None]
                 new_event == EtwNewEvent(row, task, opcode)
             IN  [self |-> IF new_event # None
                           THEN [removed EXCEPT !.last_event_on_thread =
                                   MapInsert(@, tid, [meta |-> common,
                                                      variant |-> new_event[1].variant,
                                                      ev |-> new_event[1].ev])]
                           ELSE removed,
                  ret |-> pending_ret]



\* A drain that empties the table and hands nothing out.
remaining_clr_events_on_threads_Drop(self) ==
    [self |-> [self EXCEPT !.last_event_on_thread = EmptyMap], ret |-> EmptyMap]

\* A drain that leaves the table as it is.
remaining_clr_events_on_threads_Keep(self) ==
    [self |-> self, ret |-> self.last_event_on_thread]

\* CoreClrEtwConverter::remaining_clr_events_on_threads: [self, ret], ret
\* being the table the iterator goes through (in an order of its own).
remaining_clr_events_on_threads(self) ==
    [self |-> [self EXCEPT !.last_event_on_thread = EmptyMap],
     ret |-> self.last_event_on_thread]

---------------------------------------------------------------------------
(* Input streams.  The operators of this section build the byte streams    *)
(* the model reads; they write the wire format the readers above expect    *)
(* and model no code of the parser.                                        *)

EncU16(n) == <<n % 256, n \div 256>>
EncU32(n) == <<n % 256, (n \div 256) % 256, (n \div 65536) % 256, n \div 16777216>>
EncU64(n) == EncU32(n) \o <<0, 0, 0, 0>>
Zeros(n) == [i \in 1..n |-> 0]

RECURSIVE EncVarint(_)
EncVarint(n) == IF n < 128 THEN <<n>> ELSE <<128 + (n % 128)>> \o EncVarint(n \div 128)

EncString(bytes) == EncU32(Len(bytes)) \o bytes

RECURSIVE EncWide(_)
EncWide(units) ==
    IF units = <<>> THEN <<0, 0>> ELSE EncU16(Head(units)) \o EncWide(Tail(units))

RECURSIVE Concat(_)
Concat(seqs) == IF seqs = <<>> THEN <<>> ELSE Head(seqs) \o Concat(Tail(seqs))

\* A compressed blob: the flag byte, the fields its bits select, the
\* timestamp delta, the payload.
EncCompressedBlob(b) ==
    <<b.flags>>
    \o (IF is_set(b.flags, 0) THEN EncVarint(b.metadata_id) ELSE <<>>)
    \o (IF is_set(b.flags, 1)
        THEN EncVarint(b.seq_delta) \o EncVarint(b.capture_thread_id)
                 \o EncVarint(b.processor_number)
        ELSE <<>>)
    \o (IF is_set(b.flags, 2) THEN EncVarint(b.thread_id) ELSE <<>>)
    \o (IF is_set(b.flags, 3) THEN EncVarint(b.stack_id) ELSE <<>>)
    \o EncVarint(b.ts_delta)
    \o (IF is_set(b.flags, 4) THEN b.activity_id ELSE <<>>)
    \o (IF is_set(b.flags, 5) THEN b.related_activity_id ELSE <<>>)
    \o (IF is_set(b.flags, 7) THEN EncVarint(b.payload_size) ELSE <<>>)
    \o b.payload

\* An uncompressed blob: the 80-byte header, the payload, padding to 4.
EncUncompressedBlob(b) ==
    EncU32(0) \o EncU32(b.metadata_id) \o EncU32(b.sequence_number)
    \o EncU64(b.thread_id) \o EncU64(b.capture_thread_id)
    \o EncU32(b.processor_number) \o EncU32(b.stack_id) \o EncU64(b.timestamp)
    \o b.activity_id \o b.related_activity_id \o EncU32(b.payload_size)
    \o b.payload \o Zeros((4 - (Len(b.payload) % 4)) % 4)

\* The body of a MetadataBlock or EventBlock after its size field: the
\* 20-byte header and the blobs.
EncBlockRest(flags, data) == EncU16(20) \o EncU16(flags) \o EncU64(0) \o EncU64(0) \o data

\* A metadata definition payload; ext is the bytes of its tagged extensions.
EncMetadataPayload(id, provider, event_id, event_name, keywords, version, level, ext) ==
    EncU32(id) \o EncWide(provider) \o EncU32(event_id) \o EncWide(event_name)
    \o EncU64(keywords) \o EncU32(version) \o EncU32(level) \o EncU32(0) \o ext

\* A metadata blob: a compressed blob with metadata id 0 around the payload.
MetadataBlob(payload) ==
    [flags |-> 128, metadata_id |-> 0, seq_delta |-> 0, capture_thread_id |-> 0,
     processor_number |-> 0, thread_id |-> 0, stack_id |-> 0, ts_delta |-> 0,
     activity_id |-> ZeroBytes16, related_activity_id |-> ZeroBytes16,
     payload_size |-> Len(payload), payload |-> payload]

RECURSIVE EncStacks(_)
EncStacks(stacks) ==
    IF stacks = <<>> THEN <<>>
    ELSE LET a == Head(stacks) IN
         EncU32(8 * Len(a)) \o Concat([i \in 1..Len(a) |-> EncU64(a[i])])
             \o EncStacks(Tail(stacks))

\* An object of a stream: the begin tag, the type object (05 01, version,
\* minimum reader version, name, type_end), the body and the end tag.  A
\* body is `head` (the block's u32 size; <<>> for a body without one),
\* padding to a multiple of 4 of the stream position, and `rest`.  `blobs`
\* lists what the event blobs of an EventBlock hold, `stacks` what a
\* StackBlock registers, `defs` what a MetadataBlock defines.
Object(name, head, rest, end, blobs, stacks, defs) ==
    [begin |-> <<TagBeginPrivateObject>>, name |-> name, type_end |-> TagEndObject,
     head |-> head, rest |-> rest, end |-> end,
     blobs |-> blobs, stacks |-> stacks, defs |-> defs]

\* The NullReference tag that ends a stream, as an object without a body.
NullObject ==
    [begin |-> <<TagNullReference>>, name |-> <<>>, type_end |-> TagEndObject,
     head |-> <<>>, rest |-> <<>>, end |-> <<>>,
     blobs |-> <<>>, stacks |-> <<>>, defs |-> <<>>]

IsNull(o) == o.begin = <<TagNullReference>>

\* The bytes of object o when it starts at stream position p.
EncObject(o, p) ==
    IF IsNull(o) THEN o.begin
    ELSE LET pre == o.begin \o <<5, 1>> \o EncU32(4) \o EncU32(4) \o EncString(o.name)
                        \o <<o.type_end>> \o o.head
             q == p + Len(pre)
         IN  pre \o (IF o.head = <<>> THEN <<>> ELSE Zeros(AlignUp4(q) - q))
                 \o o.rest \o o.end

RECURSIVE EncObjects(_, _)
EncObjects(objs, p) ==
    IF objs = <<>> THEN <<>>
    ELSE LET b == EncObject(Head(objs), p) IN b \o EncObjects(Tail(objs), p + Len(b))

FileHeader == MagicNettrace \o EncString(IdentFastSerialization)

\* ---- the objects the streams are made of ----

TraceBody ==
    EncU16(2024) \o EncU16(5) \o EncU16(1) \o EncU16(20) \o EncU16(12) \o EncU16(30)
    \o EncU16(15) \o EncU16(500)
    \o EncU64(123456) \o EncU64(10000000)
    \o EncU32(8) \o EncU32(4242) \o EncU32(8) \o EncU32(1000)

ObjTrace == Object(TypeTrace, <<>>, TraceBody, <<TagEndObject>>, <<>>, <<>>, <<>>)

\* The same object under the type name "TraceObject".
ObjTraceObject == [ObjTrace EXCEPT !.name = TypeTraceObject]

\* A Trace object of another process id (4243: the low byte of the field).
ObjTrace2 == [ObjTrace EXCEPT !.rest = [TraceBody EXCEPT ![37] = 147]]

Block(name, flags, data, blobs, defs) ==
    Object(name, EncU32(20 + Len(data)), EncBlockRest(flags, data), <<TagEndObject>>,
           blobs, <<>>, defs)

Def1 == [id |-> 1, provider |-> ProviderDotNETRuntime, event_id |-> 35, event_name |-> <<>>,
         keywords |-> 1, version |-> 0, level |-> 4, opcode |-> None]
Def2 == [id |-> 2, provider |-> ProviderDotNETRuntimeRundown, event_id |-> 7,
         event_name |-> <<71, 67>>, keywords |-> 16, version |-> 1, level |-> 5,
         opcode |-> Some(3)]

EncDef(d) ==
    EncCompressedBlob(MetadataBlob(
        EncMetadataPayload(d.id, d.provider, d.event_id, d.event_name, d.keywords,
                           d.version, d.level,
                           IF d.opcode = None THEN <<>>
                           ELSE EncU32(0) \o <<MetadataTagOpCode, d.opcode[1]>>)))

ObjMetadata1 == Block(TypeMetadataBlock, 1, EncDef(Def1), <<>>, <<Def1>>)
ObjMetadata2 == Block(TypeMetadataBlock, 1, EncDef(Def2), <<>>, <<Def2>>)

\* Metadata id 1 defined again, with another provider, event id, version,
\* level and keywords; alone in a block, and after Def1 in one block.
Def1b == [id |-> 1, provider |-> ProviderDotNETRuntimeRundown, event_id |-> 9,
          event_name |-> <<>>, keywords |-> 16, version |-> 2, level |-> 5,
          opcode |-> None]
ObjMetadata1b == Block(TypeMetadataBlock, 1, EncDef(Def1b), <<>>, <<Def1b>>)
ObjMetadata11b ==
    Block(TypeMetadataBlock, 1, EncDef(Def1) \o EncDef(Def1b), <<>>, <<Def1, Def1b>>)

\* ---- metadata definitions with v1 fields and tagged extensions ----

\* Two fields of a layout: an Int32 named x and a String named y.
FieldX == [type_code |-> 9, name |-> <<120>>]
FieldY == [type_code |-> 18, name |-> <<121>>]

\* The tagged extensions of a definition are [tag, opcode, fields]: the
\* opcode byte follows tag 1, the v2 layout follows tag 2, nothing
\* follows tag 0.
TagOf(tag, opcode, fields) == [tag |-> tag, opcode |-> opcode, fields |-> fields]

\* Definitions by name, as [id, v1, tags]: the v1 layout and the tagged
\* extensions that follow it in the blob's payload.
ExtDefNames == {"v2", "op-v2-op", "v1", "v1-v2"}
ExtDef(name) ==
    CASE name = "v2" ->
           [id |-> 3, v1 |-> <<>>, tags |-> <<TagOf(MetadataTagV2Params, 0, <<FieldX>>)>>]
      [] name = "op-v2-op" ->
           [id |-> 4, v1 |-> <<>>,
            tags |-> <<TagOf(MetadataTagOpCode, 7, <<>>),
                       TagOf(MetadataTagV2Params, 0, <<FieldX, FieldY>>),
                       TagOf(MetadataTagInvalid, 0, <<>>),
                       TagOf(MetadataTagOpCode, 9, <<>>)>>]
      [] name = "v1" ->
           [id |-> 5, v1 |-> <<FieldX>>, tags |-> <<TagOf(MetadataTagOpCode, 7, <<>>)>>]
      [] name = "v1-v2" ->
           [id |-> 6, v1 |-> <<FieldY>>,
            tags |-> <<TagOf(MetadataTagOpCode, 7, <<>>),
                       TagOf(MetadataTagV2Params, 0, <<FieldX>>)>>]

EncLayout(fields) ==
    EncU32(Len(fields))
    \o Concat([i \in 1..Len(fields) |-> EncU32(fields[i].type_code) \o EncWide(fields[i].name)])

EncTag(t) ==
    EncU32(0) \o <<t.tag>>
    \o (IF t.tag = MetadataTagOpCode THEN <<t.opcode>> ELSE <<>>)
    \o (IF t.tag = MetadataTagV2Params THEN EncLayout(t.fields) ELSE <<>>)

\* What the definition's blob says apart from its layout and extensions.
ExtPlain(name) ==
    [id |-> ExtDef(name).id, provider |-> ProviderDotNETRuntime, event_id |-> 80,
     event_name |-> <<>>, keywords |-> 1, version |-> 1, level |-> 4, opcode |-> None]

\* The blob of the definition: the fixed part, the v1 layout, the tags.
EncExtDef(name) ==
    LET d == ExtPlain(name)
        x == ExtDef(name)
    IN  EncCompressedBlob(MetadataBlob(
            EncU32(d.id) \o EncWide(d.provider) \o EncU32(d.event_id) \o EncWide(d.event_name)
            \o EncU64(d.keywords) \o EncU32(d.version) \o EncU32(d.level)
            \o EncLayout(x.v1)
            \o Concat([i \in 1..Len(x.tags) |-> EncTag(x.tags[i])])))

\* The MetadataBlocks of such definitions, and the definitions of each.
ExtensionObjects == {"Ext-v2", "Ext-op-v2-op", "Ext-v1", "Ext-v1-v2", "Ext-v2+v1-v2+v1"}
ExtObjectDefs(name) ==
    CASE name = "Ext-v2" -> <<"v2">>
      [] name = "Ext-op-v2-op" -> <<"op-v2-op">>
      [] name = "Ext-v1" -> <<"v1">>
      [] name = "Ext-v1-v2" -> <<"v1-v2">>
      [] name = "Ext-v2+v1-v2+v1" -> <<"v2", "v1-v2", "v1">>
      [] OTHER -> <<>>

\* A MetadataBlock of the named definitions.
ObjMetadataExt(names) ==
    Block(TypeMetadataBlock, 1, Concat([i \in 1..Len(names) |-> EncExtDef(names[i])]), <<>>,
          [i \in 1..Len(names) |-> ExtPlain(names[i])])

\* One MetadataBlock with both definitions.
ObjMetadata12 ==
    Block(TypeMetadataBlock, 1, EncDef(Def1) \o EncDef(Def2), <<>>, <<Def1, Def2>>)

\* A GcTriggered payload: reason (u32), clr_instance_id (u16).
GcTriggeredPayload(reason) == EncU32(reason) \o EncU16(0)

\* Two compressed blobs: the first writes metadata id 1, the thread ids,
\* stack id 5 and the payload size; the second has only bit 7 set and
\* inherits the rest.
BlobA ==
    [flags |-> 143, metadata_id |-> 1, seq_delta |-> 0, capture_thread_id |-> 7,
     processor_number |-> 2, thread_id |-> 7, stack_id |-> 5, ts_delta |-> 100,
     activity_id |-> ZeroBytes16, related_activity_id |-> ZeroBytes16,
     payload_size |-> 6, payload |-> GcTriggeredPayload(1), timestamp |-> 100]
BlobB ==
    [BlobA EXCEPT !.flags = 128, !.ts_delta = 3, !.payload = GcTriggeredPayload(2),
                  !.timestamp = 103]

\* An uncompressed blob of metadata id 2 and stack id 6 with a 2-byte payload.
BlobC ==
    [flags |-> 0, metadata_id |-> 2, sequence_number |-> 11, capture_thread_id |-> 9,
     processor_number |-> 1, thread_id |-> 9, stack_id |-> 6, ts_delta |-> 0,
     activity_id |-> ZeroBytes16, related_activity_id |-> ZeroBytes16,
     payload_size |-> 2, payload |-> <<9, 9>>, timestamp |-> 200]

ObjEventsEmpty == Block(TypeEventBlock, 1, <<>>, <<>>, <<>>)
ObjEventsAB == Block(TypeEventBlock, 1, EncCompressedBlob(BlobA) \o EncCompressedBlob(BlobB),
                     <<BlobA, BlobB>>, <<>>)
ObjEventsC == Block(TypeEventBlock, 0, EncUncompressedBlob(BlobC), <<BlobC>>, <<>>)

\* An EventBlock whose buffer ends two bytes before the end of the second
\* blob's payload (the block's size field says so too).
ObjEventsABCut ==
    LET data == EncCompressedBlob(BlobA) \o EncCompressedBlob(BlobB) IN
    Block(TypeEventBlock, 1, SubSeq(data, 1, Len(data) - 2), <<BlobA, BlobB>>, <<>>)

\* A StackBlock registering ids 5 and 6.
Stacks5 == << <<4096, 8192, 12288>>, <<16384>> >>
ObjStacks ==
    LET rest == EncU32(5) \o EncU32(Len(Stacks5)) \o EncStacks(Stacks5) IN
    Object(TypeStackBlock, EncU32(Len(rest)), rest, <<TagEndObject>>,
           <<>>, [first_id |-> 5, stacks |-> Stacks5], <<>>)

\* A sequence point block with one thread.
ObjSP ==
    LET rest == EncU64(150) \o EncU32(1) \o EncU64(7) \o EncU32(2) IN
    Object(TypeSPBlock, EncU32(Len(rest)), rest, <<TagEndObject>>, <<>>, <<>>, <<>>)

\* An object of a type the parser does not know.
ObjUnknown == Object(<<70, 111, 111>>, <<>>, <<>>, <<TagEndObject>>, <<>>, <<>>, <<>>)

\* Objects whose body is not followed by EndObject: the tag is missing
\* (the next object follows at once) or is another byte.
WithEnd(o, e) == [o EXCEPT !.end = e]

\* The pool of objects, by name.
WellFramedObjects ==
    {"Trace", "TraceObject", "Trace2", "Null", "Metadata1", "Metadata2", "Metadata12",
     "Stacks", "SP", "EventsEmpty", "EventsAB", "EventsC", "Unknown"}

BadEndObjects == {"Trace-noend", "Metadata1-end1", "Stacks-end7", "SP-noend", "EventsAB-end5"}

CutObjects == {"EventsAB-cut"}

ObjectPool == WellFramedObjects \cup BadEndObjects \cup CutObjects

Obj(name) ==
    CASE name = "Trace" -> ObjTrace
      [] name = "TraceObject" -> ObjTraceObject
      [] name = "Trace2" -> ObjTrace2
      [] name = "Null" -> NullObject
      [] name = "Metadata1" -> ObjMetadata1
      [] name = "Metadata2" -> ObjMetadata2
      [] name = "Metadata12" -> ObjMetadata12
      [] name = "Metadata1b" -> ObjMetadata1b
      [] name = "Metadata11b" -> ObjMetadata11b
      [] name \in ExtensionObjects -> ObjMetadataExt(ExtObjectDefs(name))
      [] name = "Metadata1-type0" -> [ObjMetadata1 EXCEPT !.type_end = TagInvalid]
      [] name = "Metadata1-type5" -> [ObjMetadata1 EXCEPT !.type_end = TagBeginPrivateObject]
      [] name = "Metadata1-type7" -> [ObjMetadata1 EXCEPT !.type_end = 7]
      [] name = "TraceObject-type1" -> [ObjTraceObject EXCEPT !.type_end = TagNullReference]
      [] name = "Metadata1-begin0" -> [ObjMetadata1 EXCEPT !.begin = <<TagInvalid>>]
      [] name = "Metadata1-begin6" -> [ObjMetadata1 EXCEPT !.begin = <<TagEndObject>>]
      [] name = "Stacks" -> ObjStacks
      [] name = "SP" -> ObjSP
      [] name = "EventsEmpty" -> ObjEventsEmpty
      [] name = "EventsAB" -> ObjEventsAB
      [] name = "EventsC" -> ObjEventsC
      [] name = "Unknown" -> ObjUnknown
      [] name = "Trace-noend" -> WithEnd(ObjTrace, <<>>)
      [] name = "Metadata1-end1" -> WithEnd(ObjMetadata1, <<TagNullReference>>)
      [] name = "Stacks-end7" -> WithEnd(ObjStacks, <<7>>)
      [] name = "SP-noend" -> WithEnd(ObjSP, <<>>)
      [] name = "EventsAB-end5" -> WithEnd(ObjEventsAB, <<TagBeginPrivateObject>>)
      [] name = "EventsAB-cut" -> ObjEventsABCut

\* ---- the streams ----

\* The number of objects of a stream drawn from the pool.
MaxObjects == 3

\* File headers: 0 is the file header, the others differ from it in the
\* magic or in the identifier.
Header(i) ==
    CASE i = 0 -> FileHeader
      [] i = 1 -> [MagicNettrace EXCEPT ![8] = 69] \o EncString(IdentFastSerialization)
      [] i = 2 -> [MagicNettrace EXCEPT ![1] = 110] \o EncString(IdentFastSerialization)
      [] i = 3 -> MagicNettrace \o EncString([IdentFastSerialization EXCEPT ![20] = 50])
      [] i = 4 -> MagicNettrace \o EncString(SubSeq(IdentFastSerialization, 1, 19))
      [] i = 5 -> MagicNettrace \o EncString(IdentFastSerialization \o <<49>>)
      [] i = 6 -> MagicNettrace \o EncString(<<>>)
BadHeaders == 1..6

\* A stream is described by its header, the names of its objects, and the
\* number of bytes cut off its end.
StreamOf(hdr, objs, cut) == [hdr |-> hdr, objs |-> objs, cut |-> cut]

Encode(d) ==
    LET h == Header(d.hdr)
        all == h \o EncObjects([i \in 1..Len(d.objs) |-> Obj(d.objs[i])], Len(h))
    IN  SubSeq(all, 1, Len(all) - d.cut)

\* d is a whole stream of at most MaxObjects objects of the pool.
PoolStream(d) ==
    \E k \in 0..MaxObjects : \E objs \in [1..k -> ObjectPool] : d = StreamOf(0, objs, 0)

\* One well-formed stream and every proper prefix of it.
CanonicalObjects ==
    <<"Trace", "Metadata1", "Metadata2", "Stacks", "SP", "EventsAB", "EventsC", "Null">>
TruncatedStreams ==
    {StreamOf(0, CanonicalObjects, c) :
        c \in 0..Len(Encode(StreamOf(0, CanonicalObjects, 0)))}

\* Streams that define metadata id 1 twice: in two blocks with events
\* between them and after them, in either order, and in one block.
RedefinitionStreams ==
    {StreamOf(0, objs, 0) :
        objs \in {<<"Metadata1", "EventsAB", "Metadata1b", "EventsAB", "Null">>,
                  <<"Metadata1b", "EventsAB", "Metadata1", "Metadata2", "EventsAB">>,
                  <<"Metadata11b", "EventsAB", "Null">>}}

\* Objects whose type object is not of the form begin tag, version, minimum
\* reader version, type name, EndObject: another tag (0, 5, 1) or a byte
\* that is no tag (7) after the type name, or another tag (0, 6) at the
\* start of the object.  The streams that start with one of them.
BadTypeObjects ==
    {"Metadata1-type0", "Metadata1-type5", "Metadata1-type7", "TraceObject-type1",
     "Metadata1-begin0", "Metadata1-begin6"}
TypeObjectStreams == {StreamOf(0, <<x, "EventsAB", "Null">>, 0) : x \in BadTypeObjects}

\* Streams of metadata definitions with v1 fields and tagged extensions.
ExtensionStreams ==
    {StreamOf(0, <<x, "Null">>, 0) : x \in ExtensionObjects}
    \cup {StreamOf(0, <<"Ext-v2", "Ext-op-v2-op", "Ext-v1", "Ext-v1-v2", "Null">>, 0)}

\* Streams whose header differs from the file header, some of them cut
\* inside it.
BadHeaderStreams ==
    {StreamOf(h, objs, c) : h \in BadHeaders, objs \in {<<>>, <<"Trace", "Null">>}, c \in 0..2}


\* ---- varints ----

\* Bit i (from 0) of a word, and its k-th group of 7 bits.
BitOf(w, i) == IF i >= 16 * Len(w) THEN 0 ELSE (w[(i \div 16) + 1] \div (2 ^ (i % 16))) % 2
GroupOf(w, k) ==
    BitOf(w, 7 * k) + 2 * BitOf(w, 7 * k + 1) + 4 * BitOf(w, 7 * k + 2)
    + 8 * BitOf(w, 7 * k + 3) + 16 * BitOf(w, 7 * k + 4) + 32 * BitOf(w, 7 * k + 5)
    + 64 * BitOf(w, 7 * k + 6)

\* The LEB128 encoding of a u64: its 7-bit groups from the lowest up to the
\* highest that is not zero, each but the last with the high bit set.
GroupsOf(w) == IF \A k \in 0..9 : GroupOf(w, k) = 0 THEN 1
               ELSE 1 + CHOOSE k \in 0..9 :
                        GroupOf(w, k) # 0 /\ \A j \in (k + 1)..9 : GroupOf(w, j) = 0
Leb128(w) ==
    [i \in 1..GroupsOf(w) |->
        GroupOf(w, i - 1) + (IF i < GroupsOf(w) THEN 128 ELSE 0)]

\* Two's complement: the word of the negative number -m is the inverted
\* word of m plus one.
Negated(m) ==
    WrappingAdd([i \in 1..Len(m) |-> 65535 - m[i]],
                [i \in 1..Len(m) |-> IF i = 1 THEN 1 ELSE 0])
ToTwos(neg, mag) == IF neg THEN Negated(mag) ELSE mag

\* The unsigned values a varint is made of, and the signed ones as
\* [neg, mag]: minus mag if neg.
VarintU64s ==
    {<<0, 0, 0, 0>>, <<1, 0, 0, 0>>, <<127, 0, 0, 0>>, <<128, 0, 0, 0>>,
     <<16383, 0, 0, 0>>, <<16384, 0, 0, 0>>, <<65535, 65535, 0, 0>>,
     <<65535, 65535, 65535, 65535>>, <<7, 0, 1, 0>>, <<0, 0, 0, 256>>}
VarintI64s ==
    {[neg |-> FALSE, mag |-> <<0, 0, 0, 0>>], [neg |-> TRUE, mag |-> <<1, 0, 0, 0>>],
     [neg |-> TRUE, mag |-> <<0, 0, 0, 32768>>],
     [neg |-> FALSE, mag |-> <<65535, 65535, 65535, 32767>>],
     [neg |-> TRUE, mag |-> <<300, 0, 0, 0>>], [neg |-> FALSE, mag |-> <<300, 0, 0, 0>>]}
VarintI32s ==
    {[neg |-> FALSE, mag |-> <<0, 0>>], [neg |-> TRUE, mag |-> <<1, 0>>],
     [neg |-> TRUE, mag |-> <<0, 32768>>], [neg |-> FALSE, mag |-> <<65535, 32767>>],
     [neg |-> TRUE, mag |-> <<300, 0>>]}

\* The bytes that follow the varint in the reader.
VarintSuffixes == {<<>>, <<0>>, <<255>>, <<128, 1>>}

\* A varint under test is [kind, neg, mag, suffix]: an unsigned value
\* ("u"), or a signed one of 64 or 32 bits whose bit pattern is encoded.
VarintInputs ==
    {[kind |-> "u", neg |-> FALSE, mag |-> w, suffix |-> sf] :
        w \in VarintU64s, sf \in VarintSuffixes}
    \cup {[kind |-> "i64", neg |-> v.neg, mag |-> v.mag, suffix |-> sf] :
        v \in VarintI64s, sf \in VarintSuffixes}
    \cup {[kind |-> "i32", neg |-> v.neg, mag |-> v.mag, suffix |-> sf] :
        v \in VarintI32s, sf \in VarintSuffixes}

\* The u64 whose encoding is written, and the bytes of the reader.
VarintPattern(x) ==
    IF x.kind = "i32" THEN ExtU64(ToTwos(x.neg, x.mag)) ELSE ToTwos(x.neg, x.mag)
VarintBytes(x) == Leb128(VarintPattern(x)) \o x.suffix


\* ---- block buffers for an EventBlobIter ----

Bytes1To16 == [i \in 1..16 |-> i]
Bytes16To1 == [i \in 1..16 |-> 17 - i]

\* The blobs of a compressed block, by name.  A blob is its flag byte and
\* the fields the flag byte selects, as the words that are written (a
\* delta as the bit pattern of the signed number); a field whose bit is
\* clear is not written, whatever the shape says.
\*   "full"   every optional field, thread id 2^32 + 7
\*   "size"   the payload size only
\*   "none"   no optional field
\*   "sorted" the metadata id, and bit 6
\*   "back"   sequence delta -2 and timestamp delta -50
\*   "meta0"  metadata id 0
\*   "wrap"   sequence delta -1 and timestamp delta -1
\*   "tid"    thread id and stack id
\*   "act"    activity id
\*   "rel"    related activity id
CompressedBlobNames ==
    {"full", "size", "none", "sorted", "back", "meta0", "wrap", "tid", "act", "rel"}

BlobShapeOf(flags, md, sd, ct, pn, tid, sid, td, act, rel, ps) ==
    [flags |-> flags, metadata_id |-> md, seq_delta |-> sd, capture_thread_id |-> ct,
     processor_number |-> pn, thread_id |-> tid, stack_id |-> sid, ts_delta |-> td,
     activity_id |-> act, related_activity_id |-> rel, payload_size |-> ps]

CompressedBlobShape(name) ==
    CASE name = "full" ->
           BlobShapeOf(191, W32(1), W32(5), W64(7), W32(2), <<7, 0, 1, 0>>, W32(5), W64(100),
                       Bytes1To16, Bytes16To1, 3)
      [] name = "size" ->
           BlobShapeOf(128, W32(0), W32(0), W64(0), W32(0), W64(0), W32(0), W64(3),
                       ZeroBytes16, ZeroBytes16, 2)
      [] name = "none" ->
           BlobShapeOf(0, W32(0), W32(0), W64(0), W32(0), W64(0), W32(0), W64(1),
                       ZeroBytes16, ZeroBytes16, 0)
      [] name = "sorted" ->
           BlobShapeOf(65, W32(2), W32(0), W64(0), W32(0), W64(0), W32(0), W64(0),
                       ZeroBytes16, ZeroBytes16, 0)
      [] name = "back" ->
           BlobShapeOf(130, W32(0), <<65534, 65535>>, W64(9), W32(1), W64(0), W32(0),
                       <<65486, 65535, 65535, 65535>>, ZeroBytes16, ZeroBytes16, 0)
      [] name = "meta0" ->
           BlobShapeOf(129, W32(0), W32(0), W64(0), W32(0), W64(0), W32(0), W64(10),
                       ZeroBytes16, ZeroBytes16, 1)
      [] name = "wrap" ->
           BlobShapeOf(131, W32(3), <<65535, 65535>>, W64(8), <<65535, 65535>>, W64(0),
                       W32(0), <<65535, 65535, 65535, 65535>>, ZeroBytes16, ZeroBytes16, 0)
      [] name = "tid" ->
           BlobShapeOf(12, W32(0), W32(0), W64(0), W32(0), W64(9), W32(6), W64(2),
                       ZeroBytes16, ZeroBytes16, 0)
      [] name = "act" ->
           BlobShapeOf(16, W32(0), W32(0), W64(0), W32(0), W64(0), W32(0), W64(4),
                       Bytes16To1, ZeroBytes16, 0)
      [] name = "rel" ->
           BlobShapeOf(32, W32(0), W32(0), W64(0), W32(0), W64(0), W32(0), W64(5),
                       ZeroBytes16, Bytes1To16, 0)

\* The blobs of an uncompressed block, by name: payloads of 0, 2, 3 and 4
\* bytes.
UncompressedBlobNames == {"u0", "u2", "u3", "u4"}
UncompressedPayloadSize(name) ==
    CASE name = "u0" -> 0 [] name = "u2" -> 2 [] name = "u3" -> 3 [] name = "u4" -> 4

\* The payload of the i-th blob of a buffer: n bytes that tell the blobs apart.
BlobPayload(i, n) == [j \in 1..n |-> 16 * i + j]

\* The number of payload bytes that follow the header of the i-th blob of
\* a compressed block: the size it writes, or that of the blob before it.
RECURSIVE WrittenPayloadSize(_, _)
WrittenPayloadSize(blobs, i) ==
    IF i = 0 THEN 0
    ELSE IF is_set(CompressedBlobShape(blobs[i]).flags, 7)
    THEN CompressedBlobShape(blobs[i]).payload_size
    ELSE WrittenPayloadSize(blobs, i - 1)

\* The bytes of the i-th blob of a compressed block.
EncCompressedBlobAt(blobs, i) ==
    LET b == CompressedBlobShape(blobs[i]) IN
    <<b.flags>>
    \o (IF is_set(b.flags, 0) THEN Leb128(ExtU64(b.metadata_id)) ELSE <<>>)
    \o (IF is_set(b.flags, 1)
        THEN Leb128(ExtU64(b.seq_delta)) \o Leb128(b.capture_thread_id)
                 \o Leb128(ExtU64(b.processor_number))
        ELSE <<>>)
    \o (IF is_set(b.flags, 2) THEN Leb128(b.thread_id) ELSE <<>>)
    \o (IF is_set(b.flags, 3) THEN Leb128(ExtU64(b.stack_id)) ELSE <<>>)
    \o Leb128(b.ts_delta)
    \o (IF is_set(b.flags, 4) THEN b.activity_id ELSE <<>>)
    \o (IF is_set(b.flags, 5) THEN b.related_activity_id ELSE <<>>)
    \o (IF is_set(b.flags, 7) THEN EncVarint(b.payload_size) ELSE <<>>)
    \o BlobPayload(i, WrittenPayloadSize(blobs, i))

\* The bytes of the i-th blob of an uncompressed block: metadata id i,
\* sequence number 10 + i, timestamp 100 * i.
UncompressedBlobAt(blobs, i) ==
    [metadata_id |-> i, sequence_number |-> 10 + i, thread_id |-> 7,
     capture_thread_id |-> 9, processor_number |-> 1, stack_id |-> 6,
     timestamp |-> 100 * i, activity_id |-> Bytes1To16, related_activity_id |-> Bytes16To1,
     payload_size |-> UncompressedPayloadSize(blobs[i]),
     payload |-> BlobPayload(i, UncompressedPayloadSize(blobs[i]))]

\* The bytes of a block buffer: its blobs, without the last cut bytes.
BlobBytes(compressed, blobs, cut) ==
    LET all == Concat([i \in 1..Len(blobs) |->
                          IF compressed THEN EncCompressedBlobAt(blobs, i)
                          ELSE EncUncompressedBlob(UncompressedBlobAt(blobs, i))])
    IN  SubSeq(all, 1, Len(all) - cut)

\* A block buffer is described by [compressed, blobs, cut, data]: the
\* names of its blobs, the number of bytes missing at its end, and its
\* bytes.
BlobSrc(compressed, blobs, cut) ==
    [compressed |-> compressed, blobs |-> blobs, cut |-> cut,
     data |-> BlobBytes(compressed, blobs, cut)]

BlobData(d) == d.data

\* The NettraceEventBlock read before the buffer: its size is that of the
\* 20-byte header and the buffer.
BlobBlock(d) ==
    [size |-> W32(20 + Len(BlobData(d))),
     header |-> [size |-> 20, flags |-> IF d.compressed THEN 1 ELSE 0,
                 min_timestamp |-> W64(0), max_timestamp |-> W64(0)]]

\* The number of blobs of a buffer.
MaxBlobs == 2

\* d is a buffer of at most MaxBlobs blobs, whole or (if it has a blob)
\* with its last byte missing.
IsBlobSrc(d) ==
    \E c \in BOOLEAN, k \in 0..MaxBlobs :
        \E blobs \in [1..k -> IF c THEN CompressedBlobNames ELSE UncompressedBlobNames] :
            \E cut \in (IF k = 0 THEN {0} ELSE {0, 1}) : d = BlobSrc(c, blobs, cut)


\* A header written again with the flag byte 255: every optional field
\* explicitly, the sequence number as the delta that gives it back from 0
\* (one less for a metadata id other than 0), the timestamp as the delta
\* from 0.
ReEncodeAllBits(h) ==
    <<255>>
    \o Leb128(ExtU64(h.metadata_id))
    \o Leb128(ExtU64(WrappingAdd(h.sequence_number,
                                 IF h.metadata_id # W32(0) THEN <<65535, 65535>>
                                 ELSE W32(0))))
    \o Leb128(h.capture_thread_id)
    \o Leb128(ExtU64(h.processor_number))
    \o Leb128(h.thread_id)
    \o Leb128(ExtU64(h.stack_id))
    \o Leb128(h.timestamp)
    \o h.activity_id
    \o h.related_activity_id
    \o Leb128(ExtU64(h.payload_size))

\* ---- streams of one event, for the decoders ----

\* A stream for decode_coreclr_event is a MetadataBlock defining one event
\* (provider, event id, version), an EventBlock with one blob of that
\* definition carrying a payload, and the NullReference tag.  It is
\* described by [provider, event_id, version, payload, thread].
ProviderNames == {"regular", "rundown", "other"}
ProviderBytes(name) ==
    CASE name = "regular" -> ProviderDotNETRuntime
      [] name = "rundown" -> ProviderDotNETRuntimeRundown
      [] name = "other" -> <<70, 111, 111>>

EventIds ==
    {0, 1, 2, 3, 7, 8, 9, 10, 20, 30, 35, 82, 141, 142, 143, 144, 145, 151, 152, 153,
     159, 160}
Versions == 0..4

WideBar == <<66, 97, 114>>
WideFoo == <<70, 111, 111>>
WideSig == <<40, 41, 86>>

\* A MethodLoadUnloadVerbose payload of version 2.
MethodPayload ==
    EncU64(17) \o EncU64(170) \o EncU64(2147418112) \o EncU32(64) \o EncU32(6) \o EncU32(8)
    \o EncWide(WideBar) \o EncWide(WideFoo) \o EncWide(WideSig) \o EncU16(9) \o EncU64(3)

\* The tail every ModuleLoadUnload payload of version 2 ends with.
ModuleTail ==
    EncU32(1) \o EncU32(0) \o EncWide(<<97>>) \o EncWide(<<98>>) \o EncU16(9)
    \o Zeros(16) \o EncU32(2) \o EncWide(<<99>>) \o Zeros(16) \o EncU32(3) \o EncWide(<<100>>)
\* A ModuleLoadUnload payload of version 2, and a DomainModuleLoad one
\* (with the AppDomain id 204).
ModulePayload == EncU64(170) \o EncU64(187) \o ModuleTail
DomainModulePayload == EncU64(170) \o EncU64(187) \o EncU64(204) \o ModuleTail

\* A GcAllocationTick payload of version 4 with the given allocation kind.
TickPayload(kind) ==
    EncU32(4096) \o EncU32(kind) \o EncU16(9) \o EncU64(4096) \o EncU64(51)
    \o EncWide(WideFoo) \o EncU32(0) \o EncU64(8192) \o EncU64(24)

SampledPayload == EncU64(8192) \o EncU64(51) \o EncU32(2) \o EncU64(48) \o EncU16(9)

R2RPayload ==
    EncU64(17) \o EncWide(WideBar) \o EncWide(WideFoo) \o EncWide(WideSig)
    \o EncU64(2147418112) \o EncU16(9)

\* "gc_unknown" and "tick_unknown" hold 77 in the enumeration field, a value
\* no GcReason and no GcAllocationKind has.
PayloadNames ==
    {"empty", "method", "module", "domain_module", "gc", "gc_unknown", "tick",
     "tick_unknown", "sampled", "r2r"}
PayloadBytes(name) ==
    CASE name = "empty" -> <<>>
      [] name = "method" -> MethodPayload
      [] name = "module" -> ModulePayload
      [] name = "domain_module" -> DomainModulePayload
      [] name = "gc" -> GcTriggeredPayload(1)
      [] name = "gc_unknown" -> GcTriggeredPayload(77)
      [] name = "tick" -> TickPayload(1)
      [] name = "tick_unknown" -> TickPayload(77)
      [] name = "sampled" -> SampledPayload
      [] name = "r2r" -> R2RPayload

\* The thread id of the blob as a varint: 7, or 2^32 + 7.
ThreadNames == {"narrow", "wide"}
ThreadVarint(name) ==
    IF name = "narrow" THEN <<7>> ELSE <<135, 128, 128, 128, 16>>

DecodeDef(d) ==
    [id |-> 1, provider |-> ProviderBytes(d.provider), event_id |-> d.event_id,
     event_name |-> <<>>, keywords |-> 1, version |-> d.version, level |-> 4, opcode |-> None]

\* The blob: flags 143 (metadata id, sequence and capture thread, thread
\* id, stack id, payload size), timestamp delta 100.
DecodeBlobBytes(d) ==
    <<143>> \o EncVarint(1) \o EncVarint(0) \o EncVarint(7) \o EncVarint(2)
    \o ThreadVarint(d.thread) \o EncVarint(0) \o EncVarint(100)
    \o EncVarint(Len(PayloadBytes(d.payload))) \o PayloadBytes(d.payload)

DecodeInput(provider, event_id, version, payload, thread) ==
    [provider |-> provider, event_id |-> event_id, version |-> version,
     payload |-> payload, thread |-> thread]

DecodeInputs ==
    {DecodeInput(pr, id, v, pl, th) :
        pr \in ProviderNames, id \in EventIds, v \in Versions, pl \in PayloadNames,
        th \in ThreadNames}

EncodeDecodeInput(d) ==
    FileHeader
    \o EncObjects(<<Block(TypeMetadataBlock, 1, EncDef(DecodeDef(d)), <<>>, <<>>),
                    Block(TypeEventBlock, 1, DecodeBlobBytes(d), <<>>, <<>>),
                    NullObject>>,
                  Len(FileHeader))


\* ---- rows for the ETW converter ----

Tids == {W32(100), W32(200)}

\* Three addresses as the bytes of the row: 0x7FFA12345678, 0x1000 and
\* 0x0807060504030201.
AddrBytes1 == <<120, 86, 52, 18, 250, 127, 0, 0>>
AddrBytes2 == <<0, 16, 0, 0, 0, 0, 0, 0>>
AddrBytes3 == <<1, 2, 3, 4, 5, 6, 7, 8>>
Addr1 == <<22136, 4660, 32762, 0>>
Addr2 == <<4096, 0, 0, 0>>
Addr3 == <<513, 1027, 1541, 2055>>

MethodFields ==
    [MethodName |-> WideFoo, MethodNamespace |-> WideBar, MethodSignature |-> WideSig,
     ModuleID |-> W64(170), MethodID |-> W64(17), MethodFlags |-> W32(8),
     MethodToken |-> W32(6), ClrInstanceID |-> 9,
     MethodStartAddress |-> W64(2147418112), MethodSize |-> W32(64)]

\* The rows, by name: stack walks (two addresses in the Stack field and
\* none, or one and three stray bytes, in the buffer; one under the names
\* of an unmerged trace), rows that decode to an event, rows that decode to
\* none, and a row of another provider.
StackWalkRows == {"StackWalk2", "StackWalk3", "StackWalkUnmerged"}
EventRows ==
    {"Triggered", "TriggeredUnknown", "GcStopUnmerged", "GcStart", "Sampled",
     "MethodLoad", "MethodDCEnd"}
NoEventRows == {"SuspendEE", "ModuleDCStart", "WalkOfOtherTask"}
OtherProviderRows == {"OtherProvider"}
RowNames == StackWalkRows \cup EventRows \cup NoEventRows \cup OtherProviderRows

RowShape(name) ==
    CASE name = "StackWalk2" ->
           [provider |-> ProviderDotNETRuntime, task |-> EtwName("CLRStack", FALSE),
            opcode |-> EtwName("CLRStackWalk", FALSE),
            fields |-> [Stack |-> AddrBytes1 \o AddrBytes2], buffer |-> <<>>]
      [] name = "StackWalk3" ->
           [provider |-> ProviderDotNETRuntime, task |-> EtwName("CLRStack", FALSE),
            opcode |-> EtwName("CLRStackWalk", FALSE),
            fields |-> [Stack |-> AddrBytes2 \o AddrBytes1],
            buffer |-> AddrBytes3 \o <<9, 9, 9>>]
      [] name = "StackWalkUnmerged" ->
           [provider |-> ProviderDotNETRuntime, task |-> EtwName("ClrStack", TRUE),
            opcode |-> EtwName("Walk", TRUE),
            fields |-> [Stack |-> AddrBytes3 \o AddrBytes3], buffer |-> AddrBytes1]
      [] name = "Triggered" ->
           [provider |-> ProviderDotNETRuntime, task |-> EtwName("GarbageCollection", FALSE),
            opcode |-> EtwName("Triggered", FALSE),
            fields |-> [Reason |-> W32(1)], buffer |-> <<>>]
      [] name = "TriggeredUnknown" ->
           [provider |-> ProviderDotNETRuntime, task |-> EtwName("GarbageCollection", FALSE),
            opcode |-> EtwName("Triggered", FALSE),
            fields |-> [Reason |-> W32(77)], buffer |-> <<>>]
      [] name = "GcStopUnmerged" ->
           [provider |-> ProviderDotNETRuntime, task |-> EtwName("GC", TRUE),
            opcode |-> EtwName("Stop", TRUE),
            fields |-> [Count |-> W32(5), Depth |-> W32(2)], buffer |-> <<>>]
      [] name = "GcStart" ->
           [provider |-> ProviderDotNETRuntime, task |-> EtwName("GarbageCollection", FALSE),
            opcode |-> EtwName("win:Start", FALSE),
            fields |-> [Count |-> W32(5), Depth |-> W32(2), Reason |-> W32(4),
                        Type |-> W32(7)],
            buffer |-> <<>>]
      [] name = "Sampled" ->
           [provider |-> ProviderDotNETRuntime, task |-> EtwName("GarbageCollection", FALSE),
            opcode |-> EtwName("GCSampledObjectAllocation", FALSE),
            fields |-> [TypeID |-> W64(51), Address |-> W64(8192),
                        ObjectCountForTypeSample |-> W32(2),
                        TotalSizeForTypeSample |-> W64(48), ClrInstanceID |-> 9],
            buffer |-> <<>>]
      [] name = "MethodLoad" ->
           [provider |-> ProviderDotNETRuntime, task |-> EtwName("CLRMethod", FALSE),
            opcode |-> EtwName("MethodLoadVerbose", FALSE),
            fields |-> MethodFields, buffer |-> <<>>]
      [] name = "MethodDCEnd" ->
           [provider |-> ProviderDotNETRuntimeRundown, task |-> EtwName("Method", TRUE),
            opcode |-> EtwName("DCEndVerbose", TRUE),
            fields |-> MethodFields, buffer |-> <<>>]
      [] name = "SuspendEE" ->
           [provider |-> ProviderDotNETRuntime, task |-> EtwName("GarbageCollection", FALSE),
            opcode |-> EtwName("GCSuspendEEBegin", FALSE),
            fields |-> [Reason |-> W32(1)], buffer |-> <<>>]
      [] name = "ModuleDCStart" ->
           [provider |-> ProviderDotNETRuntimeRundown, task |-> EtwName("CLRLoaderRundown", FALSE),
            opcode |-> EtwName("ModuleDCStart", FALSE),
            fields |-> [ModuleID |-> W64(170)], buffer |-> <<>>]
      [] name = "WalkOfOtherTask" ->
           [provider |-> ProviderDotNETRuntime, task |-> EtwName("CLRStack", FALSE),
            opcode |-> EtwName("Walk", TRUE),
            fields |-> [Stack |-> AddrBytes1 \o AddrBytes2], buffer |-> <<>>]
      [] name = "OtherProvider" ->
           [provider |-> <<70, 111, 111>>, task |-> EtwName("Thing", FALSE),
            opcode |-> EtwName("Happened", FALSE),
            fields |-> [Reason |-> W32(1)], buffer |-> <<>>]

\* The row of the given name on thread tid at time ts.
EtwRow(name, tid, ts) ==
    [name |-> name, provider |-> RowShape(name).provider, task |-> RowShape(name).task,
     opcode |-> RowShape(name).opcode, timestamp |-> W64(ts), pid |-> W32(4242),
     tid |-> tid, fields |-> RowShape(name).fields, buffer |-> RowShape(name).buffer]


---------------------------------------------------------------------------
(* The consumer of a trace: SingleDotnetTraceProcessor, which pulls the    *)
(* events of one parser into symbols and library mapping operations.       *)

\* LibMappingOpQueue::push and push_unsorted: the operation joins the
\* queue under its timestamp.
QueuePush(queue, ts, op) == Append(queue, [ts |-> ts, op |-> op])

LibMappingOpClear == [kind |-> "Clear"]
LibMappingOpAdd(start_avma, end_avma, relative_address_at_start) ==
    [kind |-> "Add", start_avma |-> start_avma, end_avma |-> end_avma,
     relative_address_at_start |-> relative_address_at_start]

\* SingleDotnetTraceProcessor::new
SingleDotnetTraceProcessor_new(reader, process_id) ==
    [reader |-> Some(reader), lib_mapping_ops |-> <<>>, symbols |-> <<>>,
     modules |-> EmptyMap, seen_method_loads |-> {}, cumulative_address |-> W32(0),
     process_id |-> process_id]

\* A consumer that takes a method of the rundown like any other.
process_coreclr_event_NoSkip(self, event_meta, variant, event) ==
    IF variant \in {"MethodLoad", "MethodDCEnd"}
    THEN LET dc_end == variant = "MethodDCEnd"
             relative_address_at_start == self.cumulative_address
         IN  [self EXCEPT
                !.seen_method_loads =
                    IF dc_end THEN @
                    ELSE @ \cup {<<event.method_start_address, event.method_name>>},
                !.cumulative_address = WrappingAdd(@, event.method_size),
                !.symbols = Append(@, [address |-> relative_address_at_start,
                                       size |-> IF event.method_size = W32(0) THEN None
                                                ELSE Some(event.method_size),
                                       name |-> event.method_name]),
                !.lib_mapping_ops =
                    QueuePush(@, IF dc_end THEN W64(0) ELSE event_meta.timestamp,
                              LibMappingOpAdd(event.method_start_address,
                                              WrappingAdd(event.method_start_address,
                                                          ExtU64(event.method_size)),
                                              relative_address_at_start))]
    ELSE self

\* SingleDotnetTraceProcessor::process_coreclr_event: the processor after
\* the event (the model's inputs keep the two sums away from overflow).
process_coreclr_event(self, event_meta, variant, event) ==
    IF variant = "ModuleLoad"
    THEN [self EXCEPT !.modules = MapInsert(@, event.module_id,
                                            [meta |-> event_meta, ev |-> event])]
    ELSE IF variant = "ModuleUnload"
    THEN [self EXCEPT !.modules = MapRemove(@, event.module_id)]
    ELSE IF variant \in {"MethodLoad", "MethodDCEnd"}
    THEN LET dc_end == variant = "MethodDCEnd"
             start_avma == event.method_start_address
             end_avma == WrappingAdd(event.method_start_address, ExtU64(event.method_size))
             msig == <<event.method_start_address, event.method_name>>
             relative_address_at_start == self.cumulative_address
             start_ts == IF dc_end THEN W64(0) ELSE event_meta.timestamp
         IN  IF dc_end /\ msig \in self.seen_method_loads
             THEN self
             ELSE [self EXCEPT
                     !.seen_method_loads = IF dc_end THEN @ ELSE @ \cup {msig},
                     !.cumulative_address = WrappingAdd(@, event.method_size),
                     !.symbols = Append(@, [address |-> relative_address_at_start,
                                            size |-> IF event.method_size = W32(0)
                                                     THEN None
                                                     ELSE Some(event.method_size),
                                            name |-> event.method_name]),
                     !.lib_mapping_ops =
                         QueuePush(@, start_ts,
                                   LibMappingOpAdd(start_avma, end_avma,
                                                   relative_address_at_start))]
    ELSE self

\* A close that commits the symbols and keeps the reader.
close_and_commit_symbol_table_KeepReader(self, prof) ==
    IF self.reader = None THEN [self |-> self, profile |-> prof]
    ELSE [self |-> [self EXCEPT !.symbols = <<>>],
          profile |-> [prof EXCEPT !.symbol_tables = Append(@, self.symbols)]]

\* SingleDotnetTraceProcessor::close_and_commit_symbol_table: [self, profile],
\* the profile being the symbol tables set for the library, in order.
close_and_commit_symbol_table(self, prof) ==
    IF self.reader = None THEN [self |-> self, profile |-> prof]
    ELSE [self |-> [self EXCEPT !.symbols = <<>>, !.reader = None],
          profile |-> [prof EXCEPT !.symbol_tables = Append(@, self.symbols)]]

\* The loop of process_pending_records, with the calls of next_event made
\* so far (each [kind, ts]) and the timestamp of the last event:
\* [self, profile, polled, panic].  PendingLoop is one pass of the loop,
\* PendingMatch its match on what next_event gave (r), PendingEvent the arm
\* of an event, d being what decode_coreclr_event made of it.
RECURSIVE PendingLoop(_, _, _, _, _, _)
RECURSIVE PendingMatch(_, _, _, _, _, _, _)
RECURSIVE PendingEvent(_, _, _, _, _, _, _)
PendingEvent(s, self, prof, timestamp, polled, chk, d) ==
    IF d.kind = "Panic"
    THEN [self |-> self, profile |-> prof, polled |-> polled, panic |-> TRUE]
    ELSE PendingLoop(s,
                     IF d.kind = "Some"
                     THEN process_coreclr_event(self, with_pid(d.val.meta, self.process_id),
                                                d.val.variant, d.val.ev)
                     ELSE self,
                     prof, timestamp, polled, chk)

PendingMatch(s, self, prof, last_timestamp, polled, chk, r) ==
    IF r.ret.kind = "Panic"
    THEN [self |-> [self EXCEPT !.reader = Some(r.st)], profile |-> prof,
          polled |-> Append(polled, [kind |-> "Panic", ts |-> W64(0)]), panic |-> TRUE]
    ELSE IF r.ret.kind = "Some"
    THEN PendingEvent(s, [self EXCEPT !.reader = Some(r.st)], prof, r.ret.val.timestamp,
                      Append(polled, [kind |-> "Some", ts |-> r.ret.val.timestamp]), chk,
                      decode_coreclr_event(r.ret.val))
    ELSE LET closed ==
               close_and_commit_symbol_table(
                   [self EXCEPT !.reader = Some(r.st),
                                !.lib_mapping_ops =
                                    QueuePush(@, last_timestamp, LibMappingOpClear)],
                   prof)
         IN  [self |-> closed.self, profile |-> closed.profile,
              polled |-> Append(polled, [kind |-> r.ret.kind, ts |-> W64(0)]),
              panic |-> FALSE]

PendingLoop(s, self, prof, last_timestamp, polled, chk) ==
    PendingMatch(s, self, prof, last_timestamp, polled, chk,
                 next_event(s, self.reader[1], chk))

\* SingleDotnetTraceProcessor::process_pending_records
process_pending_records(s, self, prof, polled, chk) ==
    IF self.reader = None
    THEN [self |-> self, profile |-> prof, polled |-> polled, panic |-> FALSE]
    ELSE PendingLoop(s, self, prof, W64(0), polled, chk)

\* SingleDotnetTraceProcessor::finish: [self, profile, ret], ret being the
\* queue handed to the caller.
finish(self, prof) ==
    LET closed == close_and_commit_symbol_table(self, prof) IN
    [self |-> closed.self, profile |-> closed.profile, ret |-> closed.self.lib_mapping_ops]

\* ---- the traces given to the consumer ----

\* The definitions of a trace: MethodLoadVerbose and MethodUnloadVerbose of
\* the runtime provider, MethodDCEndVerbose of the rundown provider.
TraceDefLoad == [id |-> 1, provider |-> ProviderDotNETRuntime, event_id |-> 143,
                 event_name |-> <<>>, keywords |-> 1, version |-> 2, level |-> 4,
                 opcode |-> None]
TraceDefDCEnd == [id |-> 2, provider |-> ProviderDotNETRuntimeRundown, event_id |-> 144,
                  event_name |-> <<>>, keywords |-> 1, version |-> 2, level |-> 4,
                  opcode |-> None]
TraceDefUnload == [id |-> 3, provider |-> ProviderDotNETRuntime, event_id |-> 144,
                   event_name |-> <<>>, keywords |-> 1, version |-> 2, level |-> 4,
                   opcode |-> None]

\* The method events of a trace, [kind, addr, name, size]: Foo of 64 bytes
\* at 4096 loaded, in the rundown and unloaded, Bar of no bytes at 4096 in
\* the rundown, and Foo of 4096 bytes at 8192 loaded.
TraceMethod(kind, addr, name, size) ==
    [kind |-> kind, addr |-> addr, name |-> name, size |-> size]
TraceMethods ==
    {TraceMethod(kind, 4096, WideFoo, 64) : kind \in {"load", "dcend", "unload"}}
    \cup {TraceMethod("dcend", 4096, WideBar, 0), TraceMethod("load", 8192, WideFoo, 4096)}

TraceMetadataId(kind) ==
    CASE kind = "load" -> 1
      [] kind = "dcend" -> 2
      [] kind = "unload" -> 3

\* The payload of a method event, and its blob: flags 143, timestamp delta
\* 100, thread 7.
TraceMethodPayload(m) ==
    EncU64(17) \o EncU64(170) \o EncU64(m.addr) \o EncU32(m.size) \o EncU32(6) \o EncU32(8)
    \o EncWide(WideBar) \o EncWide(m.name) \o EncWide(WideSig) \o EncU16(9) \o EncU64(3)
TraceBlobBytes(m) ==
    <<143>> \o EncVarint(TraceMetadataId(m.kind)) \o EncVarint(0) \o EncVarint(7)
    \o EncVarint(2) \o <<7>> \o EncVarint(0) \o EncVarint(100)
    \o EncVarint(Len(TraceMethodPayload(m))) \o TraceMethodPayload(m)

RECURSIVE TraceBlobs(_)
TraceBlobs(methods) ==
    IF methods = <<>> THEN <<>>
    ELSE TraceBlobBytes(Head(methods)) \o TraceBlobs(Tail(methods))

\* The number of method events of a trace.
MaxMethods == 3

\* A trace is [methods, ending]: a MetadataBlock with the three definitions,
\* an EventBlock with the methods' blobs, and then the NullReference tag
\* ("null"), the end of the file ("eof") or a tag that starts no object
\* ("tag"); or the file ends three bytes before the end of the EventBlock
\* ("cut").
TraceEndings == {"null", "eof", "tag", "cut"}

\* The endings given to a trace of k methods: each of them after at most one
\* method, the NullReference tag and the end of the file after more.
TraceEndingsOf(k) == IF k <= 1 THEN TraceEndings ELSE {"null", "eof"}
TraceInput(methods, ending) == [methods |-> methods, ending |-> ending]
TraceObjects(d) ==
    FileHeader
    \o EncObjects(<<Block(TypeMetadataBlock, 1,
                          EncDef(TraceDefLoad) \o EncDef(TraceDefDCEnd)
                              \o EncDef(TraceDefUnload), <<>>, <<>>),
                    Block(TypeEventBlock, 1, TraceBlobs(d.methods), <<>>, <<>>)>>,
                  Len(FileHeader))
EncodeTrace(d) ==
    CASE d.ending = "null" -> TraceObjects(d) \o <<TagNullReference>>
      [] d.ending = "eof" -> TraceObjects(d)
      [] d.ending = "tag" -> TraceObjects(d) \o <<TagEndObject>>
      [] d.ending = "cut" -> SubSeq(TraceObjects(d), 1, Len(TraceObjects(d)) - 3)

---------------------------------------------------------------------------
(* The state machine: a reader over `stream`, the parser made from it by   *)
(* EventPipeParser::new, and the caller's calls.                           *)

VARIABLES
    src,        \* the description the stream was built from (never read by an action)
    stream,     \* the bytes of the reader
    phase,      \* "created" (new not yet called), "open", "failed" (a call
                \* returned an error), "panicked" (a call panicked)
    parser,     \* None, or Some(the EventPipeParser's fields)
    last,       \* the most recent call and what it returned: [op, kind, err, val]
    events,     \* history: the events next_event has returned, in order
    nones,      \* history: how often next_event has returned Ok(None)
    decoded,    \* what decoding the event last returned gave, once applied
    converter,  \* the CoreClrEtwConverter's fields
    etw_last,   \* the most recent call on the converter: [op, row, kind, val]
    etw_calls,  \* history: the number of rows given to the converter
    etw_in,     \* history: [tid, ts] of each row given that is an event row
    etw_out,    \* history: [tid, ts, by, stack] of each event the converter
                \* has returned, in order; by is the thread of the row
                \* that returned it, or the key the drain had it under
    varint,     \* a varint under test: [x, bytes, out], out the decoders' results
    blob_src,   \* the description of the block buffer an EventBlobIter is made for
    blob_iter,  \* None, or Some(the EventBlobIter's fields)
    blob_last,  \* the most recent call on the iterator and what it returned
    blob_items, \* history: the items the iterator has yielded, in order
    processor,  \* the SingleDotnetTraceProcessor's fields
    profile,    \* the symbol tables the processor has set for its library
    polls,      \* history: [kind, ts] of each next_event call of the processor
    trace_last  \* the most recent call on the processor and the number of
                \* calls made: [op, ret, calls]

vars == <<src, stream, phase, parser, last, events, nones, decoded,
          converter, etw_last, etw_calls, etw_in, etw_out,
          varint, blob_src, blob_iter, blob_last, blob_items,
          processor, profile, polls, trace_last>>

\* The variables of the helpers and of an EventBlobIter used on its own.
trace_vars == <<processor, profile, polls, trace_last>>
unit_vars == <<varint, blob_src, blob_iter, blob_last, blob_items,
               processor, profile, polls, trace_last>>

\* No processor.
NoTrace ==
    /\ processor = <<>>
    /\ profile = [symbol_tables |-> <<>>]
    /\ polls = <<>>
    /\ trace_last = [op |-> "none", ret |-> <<>>, calls |-> 0]

\* No varint and no iterator under test.
NoUnit ==
    /\ varint = <<>>
    /\ blob_src = <<>>
    /\ blob_iter = None
    /\ blob_last = [op |-> "none", kind |-> "", val |-> <<>>]
    /\ blob_items = <<>>
    /\ NoTrace

\* The variables of the ETW converter, and those of the EventPipe parser.
etw_vars == <<converter, etw_last, etw_calls, etw_in, etw_out>>
pipe_vars == <<src, stream, phase, parser, last, events, nones, decoded>>

\* CoreClrEtwConverter::new, before any call.
NewConverter ==
    /\ converter = [last_event_on_thread |-> EmptyMap]
    /\ etw_last = [op |-> "none", row |-> <<>>, kind |-> "", val |-> <<>>]
    /\ etw_calls = 0
    /\ etw_in = <<>>
    /\ etw_out = <<>>

NotDecoded == [kind |-> "NotRun", val |-> <<>>]

Init ==
    /\ \/ PoolStream(src)
       \/ src \in TruncatedStreams
       \/ src \in BadHeaderStreams
       \/ src \in RedefinitionStreams
       \/ src \in ExtensionStreams
       \/ src \in TypeObjectStreams
    /\ stream = Encode(src)
    /\ phase = "created"
    /\ parser = None
    /\ last = [op |-> "none", kind |-> "", err |-> "", val |-> <<>>]
    /\ events = <<>>
    /\ nones = 0
    /\ decoded = NotDecoded
    /\ NewConverter
    /\ NoUnit

PhaseAfter(kind) ==
    IF kind = "Panic" THEN "panicked" ELSE IF kind = "Err" THEN "failed" ELSE "open"

\* The caller's view of a call that returned r = [st, ret].
Returned(op, r) ==
    /\ parser' = Some(r.st)
    /\ phase' = PhaseAfter(r.ret.kind)
    /\ last' = [op |-> op, kind |-> r.ret.kind, err |-> r.ret.err, val |-> r.ret.val]
    /\ events' = IF op = "next_event" /\ r.ret.kind = "Some"
                 THEN Append(events, r.ret.val) ELSE events
    /\ nones' = IF op = "next_event" /\ r.ret.kind = "None" THEN nones + 1 ELSE nones
    /\ decoded' = NotDecoded

\* The caller's view of EventPipeParser::new returning r.
Created(r) ==
    /\ parser' = IF r.ok THEN Some(r.v) ELSE None
    /\ phase' = IF r.ok THEN "open" ELSE "failed"
    /\ last' = [op |-> "new", kind |-> IF r.ok THEN "Parser" ELSE "Err",
                err |-> IF r.ok THEN "" ELSE r.err, val |-> <<>>]

\* EventPipeParser::new(stream)
Open ==
    /\ phase = "created"
    /\ Created(EventPipeParser_new(stream))
    /\ UNCHANGED <<src, stream, events, nones, decoded>>
    /\ UNCHANGED etw_vars
    /\ UNCHANGED unit_vars

\* parser.trace_info()
TraceInfo ==
    /\ phase = "open"
    /\ Returned("trace_info", trace_info(stream, parser[1]))
    /\ UNCHANGED <<src, stream>>
    /\ UNCHANGED etw_vars
    /\ UNCHANGED unit_vars

\* parser.next_event(), in a build with (chk) or without overflow checks
NextEvent ==
    /\ phase = "open"
    /\ \E chk \in BOOLEAN : Returned("next_event", next_event(stream, parser[1], chk))
    /\ UNCHANGED <<src, stream>>
    /\ UNCHANGED etw_vars
    /\ UNCHANGED unit_vars

\* decode_coreclr_event(&ne), or decode_event(&ne), on the event next_event
\* has just returned
Decode ==
    /\ phase = "open"
    /\ last.op = "next_event" /\ last.kind = "Some"
    /\ decoded = NotDecoded
    /\ \/ decoded' = decode_coreclr_event(last.val)
       \/ decoded' = decode_event(last.val)
    /\ phase' = IF decoded'.kind = "Panic" THEN "panicked" ELSE phase
    /\ UNCHANGED <<src, stream, parser, last, events, nones>>
    /\ UNCHANGED etw_vars
    /\ UNCHANGED unit_vars

\* The process ids the caller decorates with.
Pids == {W32(0), W32(4242)}

\* meta.with_pid(pid) on the metadata of the pair decode_coreclr_event has
\* returned; decoded.kind becomes "WithPid".
WithPid ==
    /\ phase = "open"
    /\ decoded.kind = "Some"
    /\ \E pid \in Pids :
          decoded' = [kind |-> "WithPid",
                      val |-> [decoded.val EXCEPT !.meta = with_pid(@, pid)]]
    /\ UNCHANGED <<src, stream, phase, parser, last, events, nones>>
    /\ UNCHANGED etw_vars
    /\ UNCHANGED unit_vars

Next == Open \/ TraceInfo \/ NextEvent \/ Decode \/ WithPid

Spec == Init /\ [][Next]_vars

\* The same calls on the streams of one event.
InitDecode ==
    /\ src \in DecodeInputs
    /\ stream = EncodeDecodeInput(src)
    /\ phase = "created"
    /\ parser = None
    /\ last = [op |-> "none", kind |-> "", err |-> "", val |-> <<>>]
    /\ events = <<>>
    /\ nones = 0
    /\ decoded = NotDecoded
    /\ NewConverter
    /\ NoUnit

SpecDecode == InitDecode /\ [][Next]_vars

\* ---- the caller of the varint helpers ----

\* parse_varint_u64, _u32, _i64 and _i32, each on a reader at the start of
\* the bytes.
ParseVarint ==
    /\ varint # <<>>
    /\ varint.out = <<>>
    /\ \E chk \in BOOLEAN :
          varint' = [varint EXCEPT !.out =
                       [u64 |-> parse_varint_u64(varint.bytes, 0, chk),
                        u32 |-> parse_varint_u32(varint.bytes, 0, chk),
                        i64 |-> parse_varint_i64(varint.bytes, 0, chk),
                        i32 |-> parse_varint_i32(varint.bytes, 0, chk)]]
    /\ UNCHANGED <<blob_src, blob_iter, blob_last, blob_items>>
    /\ UNCHANGED trace_vars
    /\ UNCHANGED pipe_vars
    /\ UNCHANGED etw_vars

NextVarint == ParseVarint

\* The state before a stream or a converter exists.
NoPipe ==
    /\ src = StreamOf(0, <<>>, 0)
    /\ stream = Encode(src)
    /\ phase = "created"
    /\ parser = None
    /\ last = [op |-> "none", kind |-> "", err |-> "", val |-> <<>>]
    /\ events = <<>>
    /\ nones = 0
    /\ decoded = NotDecoded

InitVarint ==
    /\ NoPipe
    /\ NewConverter
    /\ \E x \in VarintInputs : varint = [x |-> x, bytes |-> VarintBytes(x), out |-> <<>>]
    /\ blob_src = <<>>
    /\ blob_iter = None
    /\ blob_last = [op |-> "none", kind |-> "", val |-> <<>>]
    /\ blob_items = <<>>
    /\ NoTrace

SpecVarint == InitVarint /\ [][NextVarint]_vars

\* ---- the caller of an EventBlobIter ----

\* EventBlobIter::new(block, data)
NewBlobIter ==
    /\ blob_src # <<>>
    /\ blob_last.op = "none"
    /\ \E chk \in BOOLEAN :
          LET r == EventBlobIter_new(BlobBlock(blob_src), BlobData(blob_src), chk) IN
          /\ blob_iter' = IF r.ok THEN Some(r.v) ELSE None
          /\ blob_last' = [op |-> "new", kind |-> IF r.ok THEN "Iter" ELSE "Panic",
                           val |-> <<>>]
    /\ UNCHANGED <<varint, blob_src, blob_items>>
    /\ UNCHANGED trace_vars
    /\ UNCHANGED pipe_vars
    /\ UNCHANGED etw_vars

\* What a call of next has given: the item, the cursor before and after
\* the call, the delta base before the call, and (once ReplayHeader has
\* acted) what decoding the header's re-encoding gave.
NextResult(it, r) ==
    IF ~r.ok THEN [op |-> "next", kind |-> "Panic", val |-> <<>>]
    ELSE IF ~r.v.some
    THEN [op |-> "next", kind |-> "None",
          val |-> [before |-> it.position, after |-> r.v.iter.position]]
    ELSE [op |-> "next", kind |-> "Some",
          val |-> [header |-> r.v.header, payload |-> r.v.payload,
                   before |-> it.position, after |-> r.v.iter.position,
                   prev |-> it.prev_header, replay |-> <<>>]]

\* iter.next(), in a build with (chk) or without overflow checks
BlobIterNext ==
    /\ blob_iter # None
    /\ blob_last.kind # "Panic"
    /\ \E chk \in BOOLEAN :
          LET r == EventBlobIter_next(blob_iter[1], chk) IN
          /\ blob_iter' = IF r.ok THEN Some(r.v.iter) ELSE blob_iter
          /\ blob_last' = NextResult(blob_iter[1], r)
          /\ blob_items' = IF r.ok /\ r.v.some THEN Append(blob_items, blob_last'.val)
                           ELSE blob_items
    /\ UNCHANGED <<varint, blob_src>>
    /\ UNCHANGED trace_vars
    /\ UNCHANGED pipe_vars
    /\ UNCHANGED etw_vars

\* parse_compressed_header on the header just yielded from a compressed
\* block, written again with every flag bit set, against a default
\* prev_header.
ReplayHeader ==
    /\ blob_last.kind = "Some"
    /\ blob_src.compressed
    /\ blob_last.val.replay = <<>>
    /\ \E chk \in BOOLEAN :
          blob_last' = [blob_last EXCEPT !.val.replay =
                          parse_compressed_header(ReEncodeAllBits(blob_last.val.header), 0,
                                                  DefaultEventBlobHeader, chk)]
    /\ UNCHANGED <<varint, blob_src, blob_iter, blob_items>>
    /\ UNCHANGED trace_vars
    /\ UNCHANGED pipe_vars
    /\ UNCHANGED etw_vars

NextBlob == NewBlobIter \/ BlobIterNext \/ ReplayHeader

InitBlob ==
    /\ NoPipe
    /\ NewConverter
    /\ varint = <<>>
    /\ IsBlobSrc(blob_src)
    /\ blob_iter = None
    /\ blob_last = [op |-> "none", kind |-> "", val |-> <<>>]
    /\ blob_items = <<>>
    /\ NoTrace

SpecBlob == InitBlob /\ [][NextBlob]_vars

\* ---- the caller of the ETW converter ----

\* The number of rows a behaviour gives to the converter.
MaxRows == 3


\* What the caller notes of an event it is handed: the thread and the time
\* of its metadata, whether it has a stack, and whom it came from.
Returned_by(pair, by) ==
    [tid |-> pair.meta.thread_id, ts |-> pair.meta.timestamp, by |-> by,
     stack |-> pair.meta.stack # None]

\* The orders an iterator may go through the keys in.
Orders(keys) ==
    {order \in [1..Cardinality(keys) -> keys] :
        \A i, j \in 1..Cardinality(keys) : i # j => order[i] # order[j]}

\* converter.etw_event_to_coreclr_event(row, parser): the rows arrive with
\* increasing timestamps.
EtwEventToCoreclrEvent ==
    /\ etw_last.kind # "Panic"
    /\ etw_calls < MaxRows
    /\ \E name \in RowNames, tid \in Tids :
          LET row == EtwRow(name, tid, 1000 + etw_calls)
              r == etw_event_to_coreclr_event(converter, row)
          IN  /\ converter' = r.self
              /\ etw_last' = [op |-> "convert", row |-> row, kind |-> r.ret.kind,
                              val |-> r.ret.val]
              /\ etw_in' = IF name \in EventRows
                           THEN Append(etw_in, [tid |-> tid, ts |-> row.timestamp])
                           ELSE etw_in
              /\ etw_out' = IF r.ret.kind = "Some"
                            THEN Append(etw_out, Returned_by(r.ret.val, tid))
                            ELSE etw_out
    /\ etw_calls' = etw_calls + 1
    /\ UNCHANGED pipe_vars
    /\ UNCHANGED unit_vars

\* converter.remaining_clr_events_on_threads()
RemainingClrEventsOnThreads ==
    /\ etw_last.kind # "Panic"
    /\ LET r == remaining_clr_events_on_threads(converter) IN
          /\ converter' = r.self
          /\ etw_last' = [op |-> "drain", row |-> <<>>, kind |-> "Iter", val |-> r.ret]
          /\ \E order \in Orders(DOMAIN r.ret) :
                etw_out' = etw_out \o [n \in 1..Len(order) |->
                                         Returned_by(r.ret[order[n]], order[n])]
    /\ UNCHANGED <<etw_calls, etw_in>>
    /\ UNCHANGED pipe_vars
    /\ UNCHANGED unit_vars

NextEtw == EtwEventToCoreclrEvent \/ RemainingClrEventsOnThreads

\* A converter and its caller; no stream is read.
InitEtw ==
    /\ src = StreamOf(0, <<>>, 0)
    /\ stream = Encode(src)
    /\ phase = "created"
    /\ parser = None
    /\ last = [op |-> "none", kind |-> "", err |-> "", val |-> <<>>]
    /\ events = <<>>
    /\ nones = 0
    /\ decoded = NotDecoded
    /\ NewConverter
    /\ NoUnit

SpecEtw == InitEtw /\ [][NextEtw]_vars


\* ---- the caller of the trace consumer ----

\* The process id the processor is made for.
TracePid == W32(4242)

\* The caller's view of a call of the processor that gave r.
Processed(op, r, ret) ==
    /\ processor' = r.self
    /\ profile' = r.profile
    /\ polls' = r.polled
    /\ trace_last' = [op |-> IF r.panic THEN "panic" ELSE op, ret |-> ret,
                      calls |-> trace_last.calls + 1]

\* The number of calls a behaviour makes on the processor.
MaxCalls == 3

\* EventpipeTraceManager::process_pending_records with no path pending:
\* process_pending_records of the processor.
ProcessPendingRecords ==
    /\ trace_last.op \in {"none", "process_pending_records"}
    /\ trace_last.calls < MaxCalls
    /\ \E chk \in BOOLEAN :
          Processed("process_pending_records",
                    process_pending_records(stream, processor, profile, polls, chk), <<>>)
    /\ UNCHANGED pipe_vars
    /\ UNCHANGED etw_vars
    /\ UNCHANGED <<varint, blob_src, blob_iter, blob_last, blob_items>>

\* The caller's view of finish of the processor after a
\* process_pending_records that gave p.
Finished(p) ==
    IF p.panic
    THEN Processed("finish", p, <<>>)
    ELSE Processed("finish",
                   [self |-> finish(p.self, p.profile).self,
                    profile |-> finish(p.self, p.profile).profile,
                    polled |-> p.polled, panic |-> FALSE],
                   finish(p.self, p.profile).ret)

\* EventpipeTraceManager::finish: process_pending_records, then finish of
\* the processor, which is consumed.
Finish ==
    /\ trace_last.op \in {"none", "process_pending_records"}
    /\ trace_last.calls < MaxCalls
    /\ \E chk \in BOOLEAN :
          Finished(process_pending_records(stream, processor, profile, polls, chk))
    /\ UNCHANGED pipe_vars
    /\ UNCHANGED etw_vars
    /\ UNCHANGED <<varint, blob_src, blob_iter, blob_last, blob_items>>

NextTrace == ProcessPendingRecords \/ Finish

\* A processor made for the parser of a trace (trace_reader_for_path and
\* SingleDotnetTraceProcessor::new), before any call.
InitTrace ==
    /\ \E k \in 0..MaxMethods : \E methods \in [1..k -> TraceMethods] :
          \E ending \in TraceEndingsOf(k) : src = TraceInput(methods, ending)
    /\ stream = EncodeTrace(src)
    /\ phase = "created"
    /\ parser = None
    /\ last = [op |-> "none", kind |-> "", err |-> "", val |-> <<>>]
    /\ events = <<>>
    /\ nones = 0
    /\ decoded = NotDecoded
    /\ NewConverter
    /\ varint = <<>>
    /\ blob_src = <<>>
    /\ blob_iter = None
    /\ blob_last = [op |-> "none", kind |-> "", val |-> <<>>]
    /\ blob_items = <<>>
    /\ processor = SingleDotnetTraceProcessor_new(EventPipeParser_new(stream).v, TracePid)
    /\ profile = [symbol_tables |-> <<>>]
    /\ polls = <<>>
    /\ trace_last = [op |-> "none", ret |-> <<>>, calls |-> 0]

SpecTrace == InitTrace /\ [][NextTrace]_vars

---------------------------------------------------------------------------
(* What the streams hold, read off their descriptions.                     *)

RECURSIVE BlobsIn(_)
BlobsIn(names) ==
    IF names = <<>> THEN <<>> ELSE Obj(Head(names)).blobs \o BlobsIn(Tail(names))

\* The blobs of the stream's EventBlock objects, in file order.
BlobsOf(d) == BlobsIn(d.objs)

\* The index of the object that holds the k-th blob.
BlockOf(names, k) ==
    CHOOSE i \in 1..Len(names) :
        /\ Len(BlobsIn(SubSeq(names, 1, i - 1))) < k
        /\ k <= Len(BlobsIn(SubSeq(names, 1, i)))

\* The definitions of the metadata blocks before object i.
DefsBefore(names, i) ==
    UNION {{Obj(names[j]).defs[m] : m \in 1..Len(Obj(names[j]).defs)} : j \in 1..(i - 1)}

\* The stack blocks before object i.
StackBlocksBefore(names, i) ==
    {Obj(names[j]).stacks : j \in {j \in 1..(i - 1) : Obj(names[j]).stacks # <<>>}}

\* The fields of the trace object of the pool.
TraceFields ==
    [sync_time_utc |-> <<2024, 5, 1, 20, 12, 30, 15, 500>>,
     sync_time_qpc |-> W64(123456),
     qpc_frequency |-> <<38528, 152, 0, 0>>,
     pointer_size |-> W32(8),
     process_id |-> W32(4242),
     number_of_processors |-> W32(8),
     expected_cpu_sampling_rate |-> W32(1000)]

\* The stream is whole, begins with the file header, and its first object
\* has the type name Trace.
FirstIsTrace(d) == d.hdr = 0 /\ d.cut = 0 /\ Len(d.objs) > 0 /\ d.objs[1] = "Trace"

StartsWith(s, h) == Len(s) >= Len(h) /\ SubSeq(s, 1, Len(h)) = h

\* The stream holds eight bytes that are not the magic, or the magic and a
\* whole identifier string that is not the identifier.
HeaderDiffers(s) ==
    \/ Len(s) >= 8 /\ SubSeq(s, 1, 8) # MagicNettrace
    \/ /\ StartsWith(s, MagicNettrace)
       /\ Len(s) >= 12
       /\ s[11] = 0 /\ s[12] = 0
       /\ Len(s) >= 12 + s[9] + 256 * s[10]
       /\ SubSeq(s, 13, 12 + s[9] + 256 * s[10]) # IdentFastSerialization

\* A step of next_event: it is the only operation that leaves
\* last.op = "next_event" and decoded = NotDecoded behind.
StepNextEvent == last'.op = "next_event" /\ decoded' = NotDecoded

---------------------------------------------------------------------------
(* The claims.                                                             *)

\* C1: EventPipeParser::new returns a parser only if the stream starts with
\* the magic "Nettrace" and the length-prefixed identifier
\* "!FastSerialization.1"; a magic or identifier that differs gives the
\* bad-magic error and no parser; the parser returned has an empty metadata
\* registry, an empty stack registry, no trace info and no active iterator.
C1_NewChecksHeader ==
    last.op = "new" =>
        /\ (parser # None) <=> StartsWith(stream, FileHeader)
        /\ parser # None =>
              /\ phase = "open"
              /\ last.kind = "Parser"
              /\ parser[1] = [pos |-> Len(FileHeader), metadata_map |-> EmptyMap,
                              stack_map |-> EmptyMap, trace_info |-> None,
                              cur_event_blob_iter |-> None]
        /\ HeaderDiffers(stream) =>
              /\ parser = None
              /\ last.kind = "Err" /\ last.err = "BadMagic"

\* new has refused a stream that has the magic and another identifier.
C1_Witness ==
    /\ last.op = "new" /\ last.err = "BadMagic" /\ parser = None
    /\ StartsWith(stream, MagicNettrace)
    /\ src.hdr = 3

\* C2: on a stream whose first object has the type name Trace, trace_info()
\* called before any next_event() parses that object and returns its fields
\* without error; once the trace info is held, trace_info() returns the held
\* values and reads nothing from the stream.
C2_TraceInfoForcedAndCached ==
    [][last'.op = "trace_info" =>
          /\ (parser[1].pos = Len(FileHeader) /\ FirstIsTrace(src)) =>
                /\ last'.kind = "Info"
                /\ last'.val = TraceFields
                /\ parser'[1].trace_info = Some(TraceFields)
          /\ parser[1].trace_info # None =>
                /\ last'.kind = "Info"
                /\ last'.val = parser[1].trace_info[1]
                /\ parser'[1].pos = parser[1].pos]_vars

\* C3: next_event() at an object boundary whose next tag is NullReference
\* returns end-of-stream; on header, Trace object, NullReference the first
\* next_event() returns end-of-stream.
C3_NullReferenceEndsStream ==
    [][StepNextEvent =>
          /\ (/\ parser[1].cur_event_blob_iter = None
              /\ parser[1].pos < Len(stream)
              /\ stream[parser[1].pos + 1] = TagNullReference) =>
                /\ last'.kind = "None"
                /\ events' = events
                /\ nones' = nones + 1
                /\ parser'[1].pos = parser[1].pos + 1
          /\ (src = StreamOf(0, <<"Trace", "Null">>, 0)
              /\ parser[1].pos = Len(FileHeader)) =>
                /\ last'.kind = "None"
                /\ events' = <<>>]_vars

\* The first next_event() on header, Trace, NullReference has returned
\* end-of-stream.
C3_Witness ==
    /\ src = StreamOf(0, <<"Trace", "Null">>, 0)
    /\ last.op = "next_event" /\ last.kind = "None"
    /\ events = <<>> /\ nones = 1

---------------------------------------------------------------------------
(* Events against the stream's description.                                *)

\* The objects of the pool that next_event reads whole, with their
\* EndObject tag.
GoodObjects ==
    {"Trace", "Metadata1", "Metadata2", "Metadata12", "Metadata1b", "Metadata11b",
     "Stacks", "SP", "EventsEmpty", "EventsAB", "EventsC"}

Has(names, S) == \E i \in 1..Len(names) : names[i] \in S

\* The index of the first object among S.
FirstIndex(names, S) ==
    CHOOSE i \in 1..Len(names) : names[i] \in S /\ \A j \in 1..(i - 1) : names[j] \notin S

\* What tells one blob from another, in the blob and in the event.
BlobKey(b) ==
    [timestamp |-> W64(b.timestamp), thread_id |-> W64(b.thread_id),
     capture_thread_id |-> W64(b.capture_thread_id), payload |-> b.payload]
EventKey(e) ==
    [timestamp |-> e.timestamp, thread_id |-> e.thread_id,
     capture_thread_id |-> e.capture_thread_id, payload |-> e.payload]
BlobKeys(blobs) == [k \in 1..Len(blobs) |-> BlobKey(blobs[k])]
EventKeys == [k \in 1..Len(events) |-> EventKey(events[k])]

\* The event carries the fields of definition d.
Carries(e, d) ==
    /\ e.provider_name = d.provider
    /\ e.event_id = W32(d.event_id)
    /\ e.event_version = W32(d.version)
    /\ e.event_level = W32(d.level)
    /\ e.event_keywords = W64(d.keywords)
    /\ e.event_opcode = d.opcode

\* The stream is whole and well framed up to and including the block of
\* the blob after the ones yielded so far.
NextBlobReadable ==
    /\ src.hdr = 0 /\ src.cut = 0
    /\ Len(events) < Len(BlobsOf(src))
    /\ \A j \in 1..BlockOf(src.objs, Len(events) + 1) : src.objs[j] \in GoodObjects

\* The definitions before the block of the next blob that have its id.
NextBlobDefs ==
    {d \in DefsBefore(src.objs, BlockOf(src.objs, Len(events) + 1)) :
        d.id = BlobsOf(src)[Len(events) + 1].metadata_id}

W64s(addrs) == [n \in 1..Len(addrs) |-> W64(addrs[n])]

\* The addresses the stack blocks before the k-th blob's block register
\* under the blob's stack id, <<>> when none does.
RegisteredStack(names, k) ==
    LET b == BlobsIn(names)[k]
        regs == {sb \in StackBlocksBefore(names, BlockOf(names, k)) :
                    /\ sb.first_id <= b.stack_id
                    /\ b.stack_id < sb.first_id + Len(sb.stacks)}
    IN  IF regs = {} THEN <<>>
        ELSE LET sb == CHOOSE x \in regs : TRUE
             IN  W64s(sb.stacks[b.stack_id - sb.first_id + 1])

\* C4: the events next_event has returned are the first blobs of the
\* stream's EventBlocks in file order, one event per blob, and when the
\* first end-of-stream is returned they are all the blobs of the blocks
\* before the NullReference; no other object contributes an event.
C4_EventsInFileOrder ==
    /\ Len(events) <= Len(BlobsOf(src))
    /\ EventKeys = SubSeq(BlobKeys(BlobsOf(src)), 1, Len(events))
    /\ (last.op = "next_event" /\ last.kind = "None" /\ nones = 1) =>
          /\ Has(src.objs, {"Null"})
          /\ EventKeys =
                BlobKeys(BlobsIn(SubSeq(src.objs, 1, FirstIndex(src.objs, {"Null"}) - 1)))

\* The blob of the first block (timestamp 200) has been returned before
\* the two of the second block (timestamps 100 and 103).
C4_Witness ==
    /\ src = StreamOf(0, <<"Metadata12", "EventsC", "EventsAB">>, 0)
    /\ Len(events) = 3
    /\ events[1].timestamp = W64(200)
    /\ events[2].timestamp = W64(100)
    /\ events[3].timestamp = W64(103)

\* C5: every event returned is of a blob whose metadata id a MetadataBlock
\* earlier in the stream defines and is a key of the registry, and carries
\* that definition's provider name, event id, version, level, keywords and
\* opcode; a blob whose id no earlier block defines makes next_event return
\* an error, and no event is returned for it.
C5_EventsOfRegisteredMetadata ==
    /\ \A k \in 1..Len(events) :
          /\ k <= Len(BlobsOf(src))
          /\ \E d \in DefsBefore(src.objs, BlockOf(src.objs, k)) :
                d.id = BlobsOf(src)[k].metadata_id /\ Carries(events[k], d)
    /\ (last.op = "next_event" /\ last.kind = "Some") =>
          /\ Len(events) <= Len(BlobsOf(src))
          /\ W32(BlobsOf(src)[Len(events)].metadata_id) \in DOMAIN parser[1].metadata_map
    /\ (last.op = "next_event" /\ NextBlobReadable /\ NextBlobDefs = {}) =>
          \/ last.kind = "Some"
          \/ last.kind = "Err" /\ last.err = "AssertFail"

\* next_event has returned an error at the first blob of a block whose
\* metadata id (1) only another id's MetadataBlock precedes.
C5_Witness ==
    /\ src = StreamOf(0, <<"Metadata2", "EventsAB", "Null">>, 0)
    /\ last.op = "next_event" /\ last.kind = "Err" /\ last.err = "AssertFail"
    /\ events = <<>>
    /\ DOMAIN parser[1].metadata_map = {W32(2)}

\* C6: every event's stack is the address sequence an earlier StackBlock
\* registered under the blob's stack id, the i-th stack of a block under
\* first_id + i, and empty when the id is not registered; a blob whose
\* metadata id is registered is returned without error whether or not its
\* stack id is.
C6_StackOfRegisteredId ==
    /\ \A k \in 1..Len(events) :
          /\ k <= Len(BlobsOf(src))
          /\ events[k].stack = RegisteredStack(src.objs, k)
    /\ parser # None =>
          \A id \in DOMAIN parser[1].stack_map :
              \E i \in 0..(Len(ObjStacks.stacks.stacks) - 1) :
                  /\ id = W32(ObjStacks.stacks.first_id + i)
                  /\ parser[1].stack_map[id] = W64s(ObjStacks.stacks.stacks[i + 1])
    /\ (last.op = "next_event" /\ NextBlobReadable /\ NextBlobDefs # {}) =>
          last.kind = "Some"

\* After a StackBlock of first id 5, the event of stack id 5 has the
\* block's first stack and the event of stack id 6 its second.
C6_Witness ==
    /\ src = StreamOf(0, CanonicalObjects, 0)
    /\ Len(events) = 3
    /\ events[1].stack = <<W64(4096), W64(8192), W64(12288)>>
    /\ events[3].stack = <<W64(16384)>>

\* C7: the EventMetadata decode_coreclr_event makes of an event whose stack
\* id is registered has the event's address vector as its stack.
C7_MetadataCarriesStack ==
    (decoded.kind = "Some" /\ last.val.stack # <<>>) =>
        decoded.val.meta.stack = Some(last.val.stack)

\* The type names next_event has an arm for.
KnownTypes == {TypeTrace, TypeMetadataBlock, TypeStackBlock, TypeSPBlock, TypeEventBlock}

\* The next object read at position p has a type object naming another type.
UnknownTypeAt(s, p) ==
    LET a == advance_to_next_object(s, p)
    IN  a.ok /\ a.v # None /\ a.v[1].type_name \notin KnownTypes

\* The stream is whole, and the objects before its first object of S are
\* read whole by next_event.
FirstOf(S) ==
    /\ src.hdr = 0 /\ src.cut = 0
    /\ Has(src.objs, S)
    /\ \A j \in 1..(FirstIndex(src.objs, S) - 1) : src.objs[j] \in GoodObjects

\* On a stream whose first object without an EndObject tag after its body
\* is object i, no call returns end-of-stream or an event of a later block,
\* and a call that returns no event returns an error.
StopsAtBadEnd ==
    FirstOf(BadEndObjects) =>
        /\ nones = 0
        /\ Len(events) <= Len(BlobsIn(SubSeq(src.objs, 1, FirstIndex(src.objs, BadEndObjects))))
        /\ (last.op = "next_event" /\ last.kind # "Some") => last.kind = "Err"

\* C8: an object body that is not followed by an EndObject tag makes
\* next_event return an error, never an event or end-of-stream; while the
\* active EventBlock iterator has blobs left the stream is not read, and the
\* first call after its last blob reads the one tag after the block: an
\* EndObject is passed over (once: a NullReference right after it ends the
\* stream at the next byte), any other tag is an error.
C8_EndObjectRequired ==
    [][StepNextEvent =>
          /\ StopsAtBadEnd'
          /\ parser[1].cur_event_blob_iter # None =>
                LET it == parser[1].cur_event_blob_iter[1]
                    pos == parser[1].pos
                IN  IF it.position < it.blob_size
                    THEN parser'[1].pos = pos
                    ELSE IF pos < Len(stream) /\ stream[pos + 1] = TagEndObject
                    THEN /\ parser'[1].pos >= pos + 1
                         /\ (pos + 1 < Len(stream) /\ stream[pos + 2] = TagNullReference) =>
                               /\ last'.kind = "None"
                               /\ parser'[1].pos = pos + 2
                    ELSE /\ last'.kind = "Err"
                         /\ events' = events /\ nones' = nones]_vars

\* Both blobs of an EventBlock followed by another tag have been returned,
\* and the call after them has returned an error.
C8_Witness ==
    /\ src = StreamOf(0, <<"Metadata1", "EventsAB-end5", "Null">>, 0)
    /\ Len(events) = 2
    /\ last.op = "next_event" /\ last.kind = "Err" /\ last.err = "AssertFail"
    /\ parser[1].cur_event_blob_iter = None

\* On a stream whose first object of an unknown type is object i, a call
\* that has returned no event after all blobs before it has returned an
\* error, and the registries and the trace info are those of the objects
\* before object i.
StopsAtUnknown ==
    (/\ FirstOf({"Unknown"})
     /\ last.op = "next_event" /\ last.kind # "Some"
     /\ Len(events) = Len(BlobsIn(SubSeq(src.objs, 1, FirstIndex(src.objs, {"Unknown"}) - 1)))) =>
        LET i == FirstIndex(src.objs, {"Unknown"}) IN
        /\ last.kind = "Err" /\ last.err = "AssertFail"
        /\ nones = 0
        /\ DOMAIN parser[1].metadata_map = {W32(d.id) : d \in DefsBefore(src.objs, i)}
        /\ DOMAIN parser[1].stack_map =
              UNION {{W32(sb.first_id + n - 1) : n \in 1..Len(sb.stacks)} :
                         sb \in StackBlocksBefore(src.objs, i)}
        /\ parser[1].trace_info =
              IF \E j \in 1..(i - 1) : src.objs[j] = "Trace" THEN Some(TraceFields) ELSE None

\* C9: an object whose type object names a type other than Trace,
\* MetadataBlock, StackBlock, SPBlock and EventBlock makes next_event
\* return an error and no event, with the metadata registry, the stack
\* registry and the trace info as they were before the object.
C9_UnknownTypeIsError ==
    [][StepNextEvent =>
          /\ StopsAtUnknown'
          /\ (/\ parser[1].cur_event_blob_iter = None
              /\ UnknownTypeAt(stream, parser[1].pos)) =>
                /\ last'.kind = "Err" /\ last'.err = "AssertFail"
                /\ events' = events /\ nones' = nones
                /\ parser'[1].metadata_map = parser[1].metadata_map
                /\ parser'[1].stack_map = parser[1].stack_map
                /\ parser'[1].trace_info = parser[1].trace_info]_vars

\* next_event has returned an error at an object of type Foo that follows a
\* MetadataBlock and a StackBlock, and holds what the two registered.
C9_Witness ==
    /\ src = StreamOf(0, <<"Metadata1", "Stacks", "Unknown">>, 0)
    /\ last.op = "next_event" /\ last.kind = "Err" /\ last.err = "AssertFail"
    /\ events = <<>>
    /\ DOMAIN parser[1].metadata_map = {W32(1)}
    /\ DOMAIN parser[1].stack_map = {W32(5), W32(6)}

\* C10: when the stream ends early or a block's buffer ends inside a blob,
\* next_event returns (an error); it does not panic.
C10_ReaderFailureIsReturned ==
    (/\ last.op = "next_event"
     /\ src.hdr = 0
     /\ src.cut > 0 \/ Has(src.objs, CutObjects)) =>
        last.kind # "Panic"

\* The objects before the first NullReference (all of them when there is
\* none).
BeforeNull(names) ==
    IF Has(names, {"Null"}) THEN SubSeq(names, 1, FirstIndex(names, {"Null"}) - 1) ELSE names

\* The stream is whole, its objects before the first NullReference are
\* read whole, every blob among them has its metadata id defined earlier,
\* and one of them is an EventBlock without blobs.
CleanWithEmptyBlock ==
    /\ src.hdr = 0 /\ src.cut = 0
    /\ \A j \in 1..Len(BeforeNull(src.objs)) : src.objs[j] \in GoodObjects
    /\ Has(BeforeNull(src.objs), {"EventsEmpty"})
    /\ \A k \in 1..Len(BlobsIn(BeforeNull(src.objs))) :
          \E d \in DefsBefore(src.objs, BlockOf(src.objs, k)) :
              d.id = BlobsOf(src)[k].metadata_id

\* The EventBlock read at position p (after BeginPrivateObject and the
\* type object) has no blobs and is followed by EndObject: the position
\* after that tag, 0 otherwise.
AfterEmptyBlock(s, p) ==
    LET a == advance_to_next_object(s, p)
        b == IF a.ok /\ a.v # None /\ a.v[1].type_name = TypeEventBlock
             THEN ReadBlockAndData(s, a.pos, FALSE) ELSE Fail("Io")
    IN  IF b.ok /\ b.v.data = <<>> /\ b.pos < Len(s) /\ s[b.pos + 1] = TagEndObject
        THEN b.pos + 1 ELSE 0

\* C11: an EventBlock without blobs gives no event and no error: the call
\* that reads it passes over its EndObject tag and goes on with the object
\* after it (end-of-stream when that is a NullReference), and on a stream
\* that is otherwise well formed every call up to the first end-of-stream
\* returns the next blob of the other blocks, or end-of-stream after all of
\* them, or the reader's error where the stream stops without NullReference.
C11_EmptyEventBlock ==
    [][StepNextEvent =>
          /\ (parser[1].cur_event_blob_iter = None
              /\ AfterEmptyBlock(stream, parser[1].pos) > 0) =>
                LET q == AfterEmptyBlock(stream, parser[1].pos) IN
                /\ parser'[1].pos >= q
                /\ parser'[1].cur_event_blob_iter # None =>
                      parser'[1].cur_event_blob_iter[1].blob_size > 0
                /\ (q < Len(stream) /\ stream[q + 1] = TagNullReference) =>
                      /\ last'.kind = "None"
                      /\ events' = events
                      /\ parser'[1].pos = q + 1
          /\ (CleanWithEmptyBlock /\ nones = 0) =>
                \/ /\ last'.kind = "Some"
                   /\ Len(events') <= Len(BlobsIn(BeforeNull(src.objs)))
                \/ /\ last'.kind = "None"
                   /\ Len(events) = Len(BlobsIn(BeforeNull(src.objs)))
                \/ /\ last'.kind = "Err" /\ last'.err = "Io"
                   /\ ~Has(src.objs, {"Null"})
                   /\ Len(events) = Len(BlobsOf(src))]_vars

\* On MetadataBlock, empty EventBlock, EventBlock the first call has passed
\* over the empty block and returned the first blob of the block after it.
C11_Witness ==
    /\ src = StreamOf(0, <<"Metadata1", "EventsEmpty", "EventsAB">>, 0)
    /\ last.op = "next_event" /\ last.kind = "Some"
    /\ Len(events) = 1
    /\ events[1].timestamp = W64(100)

\* C12: once the parser holds trace info, no next_event() or trace_info()
\* call changes it.
C12_TraceInfoImmutable ==
    [][(/\ parser # None
        /\ parser[1].trace_info # None
        /\ last'.op \in {"next_event", "trace_info"}) =>
          parser'[1].trace_info = parser[1].trace_info]_vars

---------------------------------------------------------------------------
(* Decoded events against the description of the one-event stream.         *)

\* decode_coreclr_event or decode_event has returned a typed event.
Typed == decoded.kind \in {"Some", "CoreClrEvent"}

\* The variant the table of event ids names for (provider, id); "" where
\* it names none.
TableVariant(provider, id) ==
    CASE provider = "regular" /\ id \in {151, 152} -> "ModuleLoad"
      [] provider = "regular" /\ id = 153 -> "ModuleUnload"
      [] provider = "regular" /\ id \in {141, 143} -> "MethodLoad"
      [] provider = "regular" /\ id \in {142, 144} -> "MethodUnload"
      [] provider = "regular" /\ id = 35 -> "GcTriggered"
      [] provider = "regular" /\ id = 10 -> "GcAllocationTick"
      [] provider = "regular" /\ id \in {20, 30} -> "GcSampledObjectAllocation"
      [] provider = "regular" /\ id = 159 -> "ReadyToRunGetEntryPoint"
      [] provider = "rundown" /\ id = 144 -> "MethodDCEnd"
      [] OTHER -> ""

\* The event last returned, had the regular provider emitted it.
AsRegular(event) == [event EXCEPT !.provider_name = ProviderDotNETRuntime]

\* C13: the variant of a typed event is the one the table names for the
\* stream's (provider, event id), whatever the version and the payload; of
\* the module events exactly id 151 carries an AppDomain id; and the rundown
\* provider's id 144 has the fields the regular provider's id 144 has for
\* the same payload and version.
C13_VariantByProviderAndId ==
    Typed =>
        /\ decoded.val.variant = TableVariant(src.provider, src.event_id)
        /\ decoded.val.variant \in {"ModuleLoad", "ModuleUnload"} =>
              (decoded.val.ev.app_domain_id # None <=> src.event_id = 151)
        /\ (src.provider = "rundown" /\ src.event_id = 144) =>
              /\ decode_coreclr_regular_event(AsRegular(last.val)).kind = "Some"
              /\ decode_coreclr_regular_event(AsRegular(last.val)).val.variant
                     = "MethodUnload"
              /\ decode_coreclr_regular_event(AsRegular(last.val)).val.ev = decoded.val.ev

\* The rundown provider's id 144 has been decoded as the DC-end variant
\* from the method payload.
C13_Witness ==
    /\ src = DecodeInput("rundown", 144, 2, "method", "narrow")
    /\ decoded.kind = "Some"
    /\ decoded.val.variant = "MethodDCEnd"
    /\ decoded.val.ev.method_name = WideFoo

\* The stream's event is the rundown provider's id 144 and has been decoded.
DCEndDecoded == Typed /\ src.provider = "rundown" /\ src.event_id = 144

\* The event last returned, had it been the regular provider's
\* MethodLoadVerbose (id 143).
AsMethodLoadVerbose(event) ==
    [event EXCEPT !.provider_name = ProviderDotNETRuntime, !.event_id = W32(143)]

\* The fields of the method payload, once decoded.
MethodFieldsOf(ev) ==
    /\ ev.module_id = W64(170)
    /\ ev.method_start_address = W64(2147418112)
    /\ ev.method_size = W32(64)
    /\ ev.method_namespace = WideBar
    /\ ev.method_name = WideFoo
    /\ ev.method_signature = WideSig

\* The fields are those MethodLoadVerbose has for the same payload and
\* version, and the metadata says rundown.
SameAsMethodLoadVerbose ==
    /\ decoded.val.meta.is_rundown
    /\ decode_coreclr_regular_event(AsMethodLoadVerbose(last.val)).kind = "Some"
    /\ decode_coreclr_regular_event(AsMethodLoadVerbose(last.val)).val.variant = "MethodLoad"
    /\ decode_coreclr_regular_event(AsMethodLoadVerbose(last.val)).val.ev = decoded.val.ev
    /\ src.payload = "method" => MethodFieldsOf(decoded.val.ev)

StepWithPid == decoded.kind = "Some" /\ decoded'.kind = "WithPid"

\* The metadata of a typed event, against the raw event and the stream.
MetadataOfRaw(meta, event) ==
    /\ meta.timestamp = event.timestamp
    /\ meta.timestamp = W64(100)
    /\ meta.thread_id = SubSeq(event.thread_id, 1, 2)
    /\ meta.thread_id = W32(7)
    /\ meta.process_id = U32Max
    /\ meta.is_rundown <=> src.provider = "rundown"

\* C15: the metadata of every typed event has the raw event's timestamp,
\* the low 32 bits of its thread id, the process id u32::MAX, and is_rundown
\* exactly for the rundown provider; with_pid(p) sets the process id to p
\* and leaves every other field, and the event, as they were.
C15_EventPipeMetadata ==
    [][/\ Typed' => MetadataOfRaw(decoded'.val.meta, last'.val)
       /\ StepWithPid =>
             /\ decoded'.val.meta.process_id \in Pids
             /\ decoded'.val.meta.timestamp = decoded.val.meta.timestamp
             /\ decoded'.val.meta.thread_id = decoded.val.meta.thread_id
             /\ decoded'.val.meta.stack = decoded.val.meta.stack
             /\ decoded'.val.meta.is_rundown = decoded.val.meta.is_rundown
             /\ DOMAIN decoded'.val.meta = DOMAIN decoded.val.meta
             /\ decoded'.val.variant = decoded.val.variant
             /\ decoded'.val.ev = decoded.val.ev]_vars

\* with_pid(4242) has been applied to the metadata of a rundown event whose
\* raw thread id is 2^32 + 7.
C15_Witness ==
    /\ src.provider = "rundown" /\ src.thread = "wide"
    /\ decoded.kind = "WithPid"
    /\ last.val.thread_id = <<7, 0, 1, 0>>
    /\ decoded.val.meta.process_id = W32(4242)
    /\ decoded.val.meta.thread_id = W32(7)
    /\ decoded.val.meta.is_rundown

\* The stream's (provider, event id) is one the table names no variant for.
UnknownEventInput == TableVariant(src.provider, src.event_id) = ""

\* The decoder has returned no typed event.
Dropped == decoded.kind \in {"None", "UnknownEvent"}

\* The step applies decode_coreclr_event or decode_event.
StepDecode == decoded = NotDecoded /\ decoded' # NotDecoded

\* C16: an event whose (provider, event id) the table does not name is
\* dropped whatever its payload: decode_coreclr_event returns None and
\* decode_event UnknownEvent, neither panics, and the next_event() call
\* that follows returns normally (the end of the one-event stream).
C16_UnknownEventsDropped ==
    [][/\ (StepDecode /\ UnknownEventInput) => (Dropped' /\ phase' = "open")
       /\ (Dropped /\ StepNextEvent) =>
             /\ last'.kind = "None"
             /\ phase' = "open"
             /\ events' = events]_vars

\* decode_event has returned UnknownEvent for the GC phase id 7 of the
\* regular provider with an empty payload.
C16_Witness ==
    /\ src = DecodeInput("regular", 7, 0, "empty", "narrow")
    /\ decoded.kind = "UnknownEvent"
    /\ phase = "open"

\* The stream's event is a GcTriggered or GcAllocationTick event whose
\* enumeration field holds a value the enumeration does not have.
UnknownEnumInput ==
    /\ src.provider = "regular"
    /\ \/ src.event_id = 35 /\ src.payload = "gc_unknown"
       \/ src.event_id = 10 /\ src.payload = "tick_unknown"

\* C17: when the GC reason of a GcTriggered payload, or the allocation kind
\* of a GcAllocationTick payload, is no known value, decoding still gives
\* the event, with the sentinel GcReason::Empty as the reason, and neither
\* fails nor aborts.
C17_EnumFallback ==
    (UnknownEnumInput /\ decoded # NotDecoded) =>
        /\ decoded.kind \in {"Some", "CoreClrEvent", "WithPid"}
        /\ phase = "open"
        /\ decoded.val.variant = "GcTriggered" => decoded.val.ev.reason = W32(GcReasonEmpty)

---------------------------------------------------------------------------
(* The ETW converter against the rows it was given.                        *)

\* The step gives a row to the converter; the step drains it.
StepConvert == etw_last'.op = "convert" /\ etw_calls' = etw_calls + 1
StepDrain == etw_last'.op = "drain" /\ etw_calls' = etw_calls

\* The slots before and after the step.
Slots == converter.last_event_on_thread
SlotsAfter == converter'.last_event_on_thread

\* The addresses a stack-walk row holds, in order.
RowAddresses(name) ==
    CASE name = "StackWalk2" -> <<Addr1, Addr2>>
      [] name = "StackWalk3" -> <<Addr2, Addr1, Addr3>>
      [] name = "StackWalkUnmerged" -> <<Addr3, Addr3, Addr1>>

\* The variant a row decodes to.
RowVariant(name) ==
    CASE name \in {"Triggered", "TriggeredUnknown"} -> "GcTriggered"
      [] name = "GcStopUnmerged" -> "GcEnd"
      [] name = "GcStart" -> "GcStart"
      [] name = "Sampled" -> "GcSampledObjectAllocation"
      [] name \in {"MethodLoad", "MethodDCEnd"} -> "MethodLoad"

\* Every slot but that of thread tid is as it was.
OtherSlotsKept(tid) ==
    /\ DOMAIN SlotsAfter \ {tid} = DOMAIN Slots \ {tid}
    /\ \A t \in DOMAIN Slots \ {tid} : SlotsAfter[t] = Slots[t]

\* C18: a stack-walk row for a thread with a pending event returns that
\* event with the row's addresses as its stack (those of the Stack field,
\* then those of the buffer, each from 8 little-endian bytes), and leaves
\* the thread without a pending event.
C18_StackAttach ==
    [][(/\ StepConvert
        /\ etw_last'.row.name \in StackWalkRows
        /\ etw_last'.row.tid \in DOMAIN Slots) =>
          /\ etw_last'.kind = "Some"
          /\ etw_last'.val.meta.stack = Some(RowAddresses(etw_last'.row.name))
          /\ etw_last'.val =
                [Slots[etw_last'.row.tid] EXCEPT
                    !.meta.stack = Some(RowAddresses(etw_last'.row.name))]
          /\ etw_last'.row.tid \notin DOMAIN SlotsAfter
          /\ OtherSlotsKept(etw_last'.row.tid)]_vars

\* A stack walk of three addresses (one of them from the buffer) has been
\* attached to the GcTriggered event pending on thread 100.
C18_Witness ==
    /\ etw_last.op = "convert" /\ etw_last.kind = "Some"
    /\ etw_last.row.name = "StackWalk3" /\ etw_last.row.tid = W32(100)
    /\ etw_last.val.variant = "GcTriggered"
    /\ etw_last.val.meta.stack = Some(<<Addr2, Addr1, Addr3>>)
    /\ W32(100) \notin DOMAIN converter.last_event_on_thread

\* C19: a row that is no stack walk returns the event pending on its
\* thread as it was stored, without a stack (or nothing, if none was
\* pending); afterwards the thread's slot holds the row's event if the row
\* decodes to one and is empty otherwise.  No slot ever holds a stack.
C19_FlushWithoutStack ==
    [][(/\ StepConvert
        /\ etw_last'.row.name \in EventRows \cup NoEventRows) =>
          /\ IF etw_last'.row.tid \in DOMAIN Slots
             THEN /\ etw_last'.kind = "Some"
                  /\ etw_last'.val = Slots[etw_last'.row.tid]
                  /\ etw_last'.val.meta.stack = None
             ELSE etw_last'.kind = "None"
          /\ IF etw_last'.row.name \in EventRows
             THEN /\ etw_last'.row.tid \in DOMAIN SlotsAfter
                  /\ SlotsAfter[etw_last'.row.tid].variant = RowVariant(etw_last'.row.name)
                  /\ SlotsAfter[etw_last'.row.tid].meta =
                        [timestamp |-> etw_last'.row.timestamp, process_id |-> W32(4242),
                         thread_id |-> etw_last'.row.tid, stack |-> None]
             ELSE etw_last'.row.tid \notin DOMAIN SlotsAfter
          /\ OtherSlotsKept(etw_last'.row.tid)
          /\ \A t \in DOMAIN SlotsAfter : SlotsAfter[t].meta.stack = None]_vars

\* On thread 100 a GcTriggered event, then a method load: the second call
\* has returned the first event without a stack and holds the second.
C19_Witness ==
    /\ etw_last.op = "convert" /\ etw_last.kind = "Some"
    /\ etw_last.row.name = "MethodLoad" /\ etw_last.row.tid = W32(100)
    /\ etw_last.val.variant = "GcTriggered"
    /\ etw_last.val.meta.stack = None
    /\ etw_last.val.meta.timestamp = W64(1000)
    /\ W32(100) \in DOMAIN converter.last_event_on_thread
    /\ converter.last_event_on_thread[W32(100)].variant = "MethodLoad"
    /\ converter.last_event_on_thread[W32(100)].meta.timestamp = W64(1001)

\* C20: a drain returns the events pending when it is called, one for each
\* thread that has one, none with a stack, and leaves no event pending; a
\* drain right after it returns nothing, and so does a stack walk right
\* after it, on whichever thread.
C20_DrainReturnsPending ==
    [][/\ StepDrain =>
             /\ DOMAIN etw_last'.val = DOMAIN Slots
             /\ \A t \in DOMAIN Slots :
                   etw_last'.val[t] = Slots[t] /\ etw_last'.val[t].meta.stack = None
             /\ DOMAIN SlotsAfter = {}
       /\ (etw_last.op = "drain" /\ StepDrain) => DOMAIN etw_last'.val = {}
       /\ (etw_last.op = "drain" /\ StepConvert /\ etw_last'.row.name \in StackWalkRows) =>
             etw_last'.kind = "None"]_vars

\* A drain has returned the events pending on both threads.
C20_Witness ==
    /\ etw_last.op = "drain"
    /\ DOMAIN etw_last.val = Tids
    /\ etw_last.val[W32(100)].meta.thread_id = W32(100)
    /\ etw_last.val[W32(200)].meta.thread_id = W32(200)
    /\ DOMAIN converter.last_event_on_thread = {}


\* The step gives a stack-walk row to the converter.
StepStackWalk == StepConvert /\ etw_last'.row.name \in StackWalkRows

\* C33: a stack-walk row for a thread without a pending event returns
\* nothing and leaves every slot as it was; the stack walk right after a
\* stack walk of the same thread returns nothing; and an event is returned
\* with a stack only by a stack walk that finds it pending without one and
\* takes it out of the table.
C33_StackWalkWithoutPending ==
    [][/\ (StepStackWalk /\ etw_last'.row.tid \notin DOMAIN Slots) =>
             /\ etw_last'.kind = "None"
             /\ SlotsAfter = Slots
       /\ (/\ etw_last.op = "convert"
           /\ etw_last.row.name \in StackWalkRows
           /\ StepStackWalk
           /\ etw_last'.row.tid = etw_last.row.tid) =>
             etw_last'.kind = "None"
       /\ (/\ StepConvert
           /\ etw_last'.kind = "Some"
           /\ etw_last'.val.meta.stack # None) =>
             /\ StepStackWalk
             /\ Slots[etw_last'.row.tid].meta.stack = None
             /\ etw_last'.row.tid \notin DOMAIN SlotsAfter]_vars

\* Two stack walks in a row on thread 100, after an event of that thread:
\* the first has returned the event with a stack, the second nothing.
C33_Witness ==
    /\ etw_calls = 3
    /\ etw_last.op = "convert" /\ etw_last.kind = "None"
    /\ etw_last.row.name = "StackWalk2" /\ etw_last.row.tid = W32(100)
    /\ etw_in = <<[tid |-> W32(100), ts |-> W64(1000)]>>
    /\ etw_out = <<[tid |-> W32(100), ts |-> W64(1000), by |-> W32(100), stack |-> TRUE]>>
    /\ DOMAIN converter.last_event_on_thread = {}


\* The event rows given so far, the events returned so far and the events
\* pending, each as [tid, ts].
Ingested == {etw_in[n] : n \in 1..Len(etw_in)}
Handed == {[tid |-> etw_out[n].tid, ts |-> etw_out[n].ts] : n \in 1..Len(etw_out)}
Pending ==
    {[tid |-> Slots[t].meta.thread_id, ts |-> Slots[t].meta.timestamp] : t \in DOMAIN Slots}

\* The place of an event row among the rows given.
ArrivalOf(e) == CHOOSE n \in 1..Len(etw_in) : etw_in[n] = [tid |-> e.tid, ts |-> e.ts]

\* C34: every event row given to the converter is, at any time, either
\* pending or returned, never both, and after a drain returned; no event
\* is returned twice; an event is returned only if its row was given
\* before, and only by a row of its own thread or by the drain from that
\* thread's slot; the events of one thread are returned in the order their
\* rows arrived in.
C34_NoLossNoDuplication ==
    etw_last.kind # "Panic" =>
        /\ Ingested = Handed \cup Pending
        /\ Handed \cap Pending = {}
        /\ etw_last.op = "drain" => Handed = Ingested
        /\ \A i, j \in 1..Len(etw_out) :
              i < j =>
                 /\ <<etw_out[i].tid, etw_out[i].ts>> # <<etw_out[j].tid, etw_out[j].ts>>
                 /\ etw_out[i].tid = etw_out[j].tid =>
                       ArrivalOf(etw_out[i]) < ArrivalOf(etw_out[j])
        /\ \A n \in 1..Len(etw_out) : etw_out[n].by = etw_out[n].tid

\* Two events on thread 100 and one on thread 200, then a drain: the first
\* event of thread 100 was returned by the row of the second, the other two
\* by the drain.
C34_Witness ==
    /\ etw_last.op = "drain"
    /\ etw_in = << [tid |-> W32(100), ts |-> W64(1000)],
                   [tid |-> W32(200), ts |-> W64(1001)],
                   [tid |-> W32(100), ts |-> W64(1002)] >>
    /\ Len(etw_out) = 3
    /\ etw_out[1] = [tid |-> W32(100), ts |-> W64(1000), by |-> W32(100), stack |-> FALSE]
    /\ etw_out[2].ts = W64(1002)
    /\ etw_out[3].ts = W64(1001)


\* C35: the table holds at most one event for each thread id, under that
\* id; a row of thread T that the converter accepts returns only an event of
\* T and leaves the slot of every other thread as it was, so that a stack
\* walk of T still finds T's event after rows of another thread.
C35_OneSlotPerThread ==
    /\ [](\A t \in DOMAIN Slots : t \in Tids /\ Slots[t].meta.thread_id = t)
    /\ [][(StepConvert /\ etw_last'.kind # "Panic") =>
             /\ OtherSlotsKept(etw_last'.row.tid)
             /\ etw_last'.kind = "Some" =>
                   etw_last'.val.meta.thread_id = etw_last'.row.tid
             /\ (StepStackWalk /\ etw_last'.row.tid \in DOMAIN Slots) =>
                   /\ etw_last'.kind = "Some"
                   /\ etw_last'.val.meta.timestamp = Slots[etw_last'.row.tid].meta.timestamp
                   /\ etw_last'.val.meta.stack # None]_vars

\* An event of thread 100, an event of thread 200, then the stack walk of
\* thread 100: the walk has returned the event of thread 100 with a stack
\* and the event of thread 200 is still pending.
C35_Witness ==
    /\ etw_last.op = "convert" /\ etw_last.kind = "Some"
    /\ etw_last.row.name = "StackWalk2" /\ etw_last.row.tid = W32(100)
    /\ etw_in = << [tid |-> W32(100), ts |-> W64(1000)],
                   [tid |-> W32(200), ts |-> W64(1001)] >>
    /\ etw_out = <<[tid |-> W32(100), ts |-> W64(1000), by |-> W32(100), stack |-> TRUE]>>
    /\ DOMAIN converter.last_event_on_thread = {W32(200)}
    /\ converter.last_event_on_thread[W32(200)].meta.timestamp = W64(1001)


\* C36: a row of a provider other than the two runtime providers is
\* dropped: the call returns nothing, or the event that was pending on the
\* row's thread, stores no event for the row and leaves the other slots as
\* they were; the call does not abort.
C36_OtherProviderDropped ==
    [][(StepConvert /\ etw_last'.row.name \in OtherProviderRows) =>
          /\ etw_last'.kind = (IF etw_last'.row.tid \in DOMAIN Slots THEN "Some" ELSE "None")
          /\ etw_last'.kind = "Some" => etw_last'.val = Slots[etw_last'.row.tid]
          /\ etw_last'.row.tid \notin DOMAIN SlotsAfter
          /\ OtherSlotsKept(etw_last'.row.tid)]_vars

---------------------------------------------------------------------------
(* The varint helpers against the value that was encoded.                  *)

\* The signed number a word holds in two's complement, as [neg, mag].
FromTwos(w) ==
    IF w[Len(w)] >= 32768 THEN [neg |-> TRUE, mag |-> Negated(w)]
    ELSE [neg |-> FALSE, mag |-> w]

\* The length of the varint at the start of the bytes: up to and including
\* the first byte below 128.
VarintLength(bytes) == CHOOSE n \in 1..Len(bytes) :
                          bytes[n] < 128 /\ \A i \in 1..(n - 1) : bytes[i] >= 128

\* C21: decoding the LEB128 encoding of x with parse_varint_u64 gives x and
\* leaves the reader behind the first byte without the high bit;
\* parse_varint_u32 gives the low 32 bits; parse_varint_i64 and
\* parse_varint_i32 give the number whose two's-complement bit pattern was
\* encoded (the minimum, -1, 0 and the maximum among them).
C21_VarintRoundTrip ==
    (varint # <<>> /\ varint.out # <<>>) =>
        LET x == varint.x
            out == varint.out
            n == VarintLength(varint.bytes)
        IN  /\ out.u64.ok /\ out.u32.ok /\ out.i64.ok /\ out.i32.ok
            /\ out.u64.v = VarintPattern(x)
            /\ out.u64.pos = n /\ out.u32.pos = n /\ out.i64.pos = n /\ out.i32.pos = n
            /\ n + Len(x.suffix) = Len(varint.bytes)
            /\ out.u32.v = SubSeq(VarintPattern(x), 1, 2)
            /\ x.kind = "u" => out.u64.v = x.mag
            /\ x.kind = "i64" => FromTwos(out.i64.v) = [neg |-> x.neg, mag |-> x.mag]
            /\ x.kind = "i32" => FromTwos(out.i32.v) = [neg |-> x.neg, mag |-> x.mag]

\* The minimum of i64 has been decoded from its ten bytes, with bytes
\* following in the reader.
C21_Witness ==
    /\ varint # <<>>
    /\ varint.out # <<>>
    /\ varint.x = [kind |-> "i64", neg |-> TRUE, mag |-> <<0, 0, 0, 32768>>,
                   suffix |-> <<128, 1>>]
    /\ varint.out.i64.v = <<0, 0, 0, 32768>>
    /\ varint.out.i64.pos = 10
    /\ Len(varint.bytes) = 12

---------------------------------------------------------------------------
(* The blobs of one block, as the iterator yields them.                    *)

\* A header has just been yielded and decoded again from its re-encoding.
Replayed == blob_last.kind = "Some" /\ blob_last.val.replay # <<>>

\* The header with the sorted flag, as the flag byte 255 states it.
AsSorted(h) ==
    [h EXCEPT !.is_sorted = TRUE,
              !.raw_metadata_id = <<h.metadata_id[1], BitOr(h.metadata_id[2], 32768)>>]

\* C22 as stated: a header yielded from a compressed block, written again
\* with the flag byte 255 and decoded against a default prev_header, is the
\* header that was yielded, in every field.
C22_ReplayEqual ==
    Replayed => /\ blob_last.val.replay.ok
                /\ blob_last.val.replay.v = blob_last.val.header

\* C22: a header yielded from a compressed block, written again with the
\* flag byte 255 and decoded against a default prev_header, is the header
\* that was yielded in every field but the two that bit 6 of the flag byte
\* decides: is_sorted is true and bit 31 of raw_metadata_id is set.  It is
\* the yielded header exactly when that header is sorted.
C22_ReplayUpToSorted ==
    Replayed =>
        /\ blob_last.val.replay.ok
        /\ blob_last.val.replay.pos = Len(ReEncodeAllBits(blob_last.val.header))
        /\ blob_last.val.replay.v = AsSorted(blob_last.val.header)
        /\ (blob_last.val.replay.v = blob_last.val.header)
              <=> blob_last.val.header.is_sorted

\* The replay of the second blob of <<full, wrap>>: a header that is not
\* sorted, with inherited fields and a metadata id, comes back sorted.
C22_Witness ==
    /\ Replayed
    /\ blob_src.blobs = <<"full", "wrap">>
    /\ Len(blob_items) = 2
    /\ ~blob_last.val.header.is_sorted
    /\ blob_last.val.header.metadata_id = W32(3)
    /\ blob_last.val.replay.ok
    /\ blob_last.val.replay.v.is_sorted
    /\ blob_last.val.replay.v.sequence_number = blob_last.val.header.sequence_number

\* The blob just yielded is blob number Len(blob_items) of a compressed
\* block.
YieldedCompressed == blob_last.kind = "Some" /\ blob_src.compressed

\* Its flag byte, as it stands in the buffer at the cursor of the call.
FlagByte == BlobData(blob_src)[blob_last.val.before + 1]

\* The header yielded before it in the block; the default header for the
\* first blob.
HeaderBefore ==
    IF Len(blob_items) > 1 THEN blob_items[Len(blob_items) - 1].header
    ELSE DefaultEventBlobHeader

\* C23: in a compressed block every header field whose flag bit is clear
\* is the field of the header decoded before it in the block (bit 0
\* metadata id, bit 1 capture thread id and processor number, bit 2 thread
\* id, bit 3 stack id, bit 4 activity id, bit 5 related activity id, bit 7
\* payload size); a second blob with the flag byte 128 inherits all of
\* them but the payload size.
C23_ClearBitInherits ==
    YieldedCompressed =>
        LET h == blob_last.val.header
            q == HeaderBefore
            inherits(bit, f) == ~is_set(FlagByte, bit) => h[f] = q[f]
        IN  /\ inherits(0, "metadata_id")
            /\ inherits(1, "capture_thread_id")
            /\ inherits(1, "processor_number")
            /\ inherits(2, "thread_id")
            /\ inherits(3, "stack_id")
            /\ inherits(4, "activity_id")
            /\ inherits(5, "related_activity_id")
            /\ inherits(7, "payload_size")
            /\ (Len(blob_items) = 2 /\ FlagByte = 128) =>
                  \A f \in {"thread_id", "capture_thread_id", "processor_number",
                            "stack_id", "metadata_id", "activity_id",
                            "related_activity_id"} : h[f] = q[f]

\* The second blob of <<full, size>>: flag byte 128, the fields of the
\* first blob and a payload size of its own.
C23_Witness ==
    /\ YieldedCompressed
    /\ blob_src.blobs = <<"full", "size">>
    /\ Len(blob_items) = 2
    /\ FlagByte = 128
    /\ blob_last.val.header.thread_id = <<7, 0, 1, 0>>
    /\ blob_last.val.header.capture_thread_id = W64(7)
    /\ blob_last.val.header.processor_number = W32(2)
    /\ blob_last.val.header.stack_id = W32(5)
    /\ blob_last.val.header.metadata_id = W32(1)
    /\ blob_last.val.header.activity_id = Bytes1To16
    /\ blob_last.val.header.related_activity_id = Bytes16To1
    /\ blob_last.val.header.payload_size = W32(2)
    /\ blob_items[1].header.payload_size = W32(3)

\* What was written for the blob just yielded.
YieldedShape == CompressedBlobShape(blob_src.blobs[Len(blob_items)])

\* C24: the sequence number of a compressed header is base + 1 modulo 2^32
\* when the blob's metadata id is not 0 and base when it is 0, where base
\* is the previous header's sequence number, plus the signed delta if bit
\* 1 is set.  So with bit 1 clear a blob with a metadata id has the
\* sequence number after the previous one, and a blob with the metadata id
\* 0 has the previous one.
C24_SequenceRule ==
    YieldedCompressed =>
        LET h == blob_last.val.header
            before == HeaderBefore.sequence_number
            base == IF is_set(FlagByte, 1)
                    THEN WrappingAddSigned(before, YieldedShape.seq_delta)
                    ELSE before
        IN  /\ h.metadata_id # W32(0) => h.sequence_number = WrappingAdd(base, W32(1))
            /\ h.metadata_id = W32(0) => h.sequence_number = base
            /\ ~is_set(FlagByte, 1) /\ h.metadata_id # W32(0) =>
                  h.sequence_number = WrappingAdd(before, W32(1))
            /\ ~is_set(FlagByte, 1) /\ h.metadata_id = W32(0) =>
                  h.sequence_number = before

\* <<full, meta0>>: the first blob has the sequence number 0 + 5 + 1, the
\* second, with the metadata id 0 and bit 1 clear, has it too.
C24_Witness ==
    /\ YieldedCompressed
    /\ blob_src.blobs = <<"full", "meta0">>
    /\ Len(blob_items) = 2
    /\ blob_items[1].header.sequence_number = W32(6)
    /\ blob_last.val.header.metadata_id = W32(0)
    /\ ~is_set(FlagByte, 1)
    /\ blob_last.val.header.sequence_number = W32(6)

\* a < b, for two words of one width.
WordLess(a, b) ==
    \E i \in 1..Len(a) : a[i] < b[i] /\ \A j \in (i + 1)..Len(a) : a[j] = b[j]

\* The call of next that has just returned read a whole blob of a
\* compressed block: the buffer is not cut inside it.
ReadWholeCompressed ==
    /\ blob_last.op = "next"
    /\ blob_src.compressed
    /\ blob_last.kind # "None"
    /\ blob_src.cut = 0

\* C25: whatever its flag byte, a compressed header's timestamp is the
\* previous header's plus the signed 64-bit delta written for it, modulo
\* 2^64: the sum does not fail in a build with overflow checks either, and
\* a negative delta of at most the previous timestamp gives a smaller one.
C25_TimestampDelta ==
    /\ ReadWholeCompressed => blob_last.kind = "Some"
    /\ YieldedCompressed =>
          LET h == blob_last.val.header
              before == HeaderBefore.timestamp
              delta == FromTwos(YieldedShape.ts_delta)
          IN  /\ h.timestamp = WrappingAdd(before, YieldedShape.ts_delta)
              /\ delta.neg /\ ~WordLess(before, delta.mag) => WordLess(h.timestamp, before)
              /\ ~delta.neg /\ delta.mag # W64(0) /\ ~WordLess(h.timestamp, before) =>
                    WordLess(before, h.timestamp)

\* <<wrap, back>>: 0 - 1 wraps to u64::MAX, and the delta -50 of the second
\* blob, whose flag byte does not name the timestamp, gives u64::MAX - 50.
C25_Witness ==
    /\ YieldedCompressed
    /\ blob_src.blobs = <<"wrap", "back">>
    /\ Len(blob_items) = 2
    /\ blob_items[1].header.timestamp = <<65535, 65535, 65535, 65535>>
    /\ FromTwos(YieldedShape.ts_delta) = [neg |-> TRUE, mag |-> W64(50)]
    /\ blob_last.val.header.timestamp = <<65485, 65535, 65535, 65535>>

\* C27: is_sorted of a compressed header is bit 6 of the blob's own flag
\* byte, whatever the header before it was, and raw_metadata_id is the
\* metadata id with bit 31 set exactly when is_sorted is true.
C27_SortedFromBit6 ==
    YieldedCompressed =>
        LET h == blob_last.val.header IN
        /\ h.is_sorted = is_set(FlagByte, 6)
        /\ h.raw_metadata_id[1] = h.metadata_id[1]
        /\ h.raw_metadata_id[2] % 32768 = h.metadata_id[2] % 32768
        /\ (h.raw_metadata_id[2] >= 32768) = (h.is_sorted \/ h.metadata_id[2] >= 32768)
        /\ h.metadata_id[2] < 32768 => (h.raw_metadata_id[2] >= 32768) = h.is_sorted

\* <<sorted, none>>: the second blob, with the flag byte 0, inherits the
\* metadata id 2 of a sorted header and is not sorted.
C27_Witness ==
    /\ YieldedCompressed
    /\ blob_src.blobs = <<"sorted", "none">>
    /\ Len(blob_items) = 2
    /\ blob_items[1].header.is_sorted
    /\ blob_items[1].header.raw_metadata_id = <<2, 32768>>
    /\ FlagByte = 0
    /\ ~blob_last.val.header.is_sorted
    /\ blob_last.val.header.metadata_id = W32(2)
    /\ blob_last.val.header.raw_metadata_id = W32(2)

\* The bytes of a fixed (uncompressed) blob header.
FixedHeaderBytes == Len(EncUncompressedBlob(UncompressedBlobAt(<<"u0">>, 1)))

\* C28: after a blob is yielded the cursor is past its header and, in a
\* compressed block, exactly payload_size payload bytes (none for the size
\* 0), in an uncompressed block payload_size rounded up to a multiple of 4
\* (0 to 3 bytes of padding); the payload has payload_size bytes, those
\* after the header.
C28_CursorAfterBlob ==
    blob_last.kind = "Some" =>
        LET v == blob_last.val
            k == Len(blob_items)
            size == ToNat(v.header.payload_size)
            pad == (4 - (size % 4)) % 4
        IN  /\ Len(v.payload) = size
            /\ v.payload = BlobPayload(k, size)
            /\ blob_iter[1].position = v.after
            /\ IF blob_src.compressed
               THEN /\ v.after - v.before = Len(EncCompressedBlobAt(blob_src.blobs, k))
                    /\ v.payload = SubSeq(BlobData(blob_src), v.after - size + 1, v.after)
               ELSE /\ v.after - v.before = FixedHeaderBytes + size + pad
                    /\ pad \in 0..3
                    /\ (size + pad) % 4 = 0
                    /\ v.payload = SubSeq(BlobData(blob_src), v.before + FixedHeaderBytes + 1,
                                          v.before + FixedHeaderBytes + size)

\* The second blob of the uncompressed <<u2, u3>>: 2 and 1 bytes of padding
\* have been skipped.
C28_Witness ==
    /\ blob_last.kind = "Some"
    /\ blob_src = BlobSrc(FALSE, <<"u2", "u3">>, 0)
    /\ Len(blob_items) = 2
    /\ blob_items[1].after = 84
    /\ blob_last.val.before = 84
    /\ blob_last.val.after = 168
    /\ blob_last.val.payload = <<33, 34, 35>>

\* C29: a call of next returns a blob exactly when the cursor is below
\* blob_size (block size - header size) at the call; a returned blob moves
\* the cursor forward by at least one byte, and a call that returns none
\* leaves the cursor where it is, at or past blob_size, so that every later
\* call returns none as well.
C29_BlobWhileBelowSize ==
    blob_last.op = "next" =>
        /\ blob_last.kind = "Some" =>
              /\ blob_last.val.before < blob_iter[1].blob_size
              /\ blob_last.val.after > blob_last.val.before
        /\ blob_last.kind # "Some" =>
              /\ blob_last.kind = "None"
              /\ blob_last.val.before >= blob_iter[1].blob_size
              /\ blob_last.val.after = blob_last.val.before

---------------------------------------------------------------------------
(* The delta base across the blocks of a stream.                           *)

\* The event carries the fields of the header.
EventOfHeader(ev, h) ==
    /\ ev.sequence_number = h.sequence_number
    /\ ev.thread_id = h.thread_id
    /\ ev.capture_thread_id = h.capture_thread_id
    /\ ev.timestamp = h.timestamp
    /\ ev.activity_id = h.activity_id
    /\ ev.related_activity_id = h.related_activity_id
    /\ Len(ev.payload) = ToNat(h.payload_size)

\* This step of next_event has returned an event, and has read a block
\* from the stream to do so: the event is the first blob of that block.
YieldsFirstOfBlock ==
    /\ StepNextEvent
    /\ last'.kind = "Some"
    /\ parser[1].pos # parser'[1].pos

\* C26: the first blob of a block is decoded against the all-zero default
\* header, whatever the blocks before it held: its header is what its
\* bytes give against that header, so a field whose flag bit is clear is 0
\* and the timestamp is the blob's own delta; and after every blob of a
\* compressed block prev_header is the header of that blob.
C26_FreshBasePerBlock ==
    [][/\ YieldsFirstOfBlock =>
             LET it == parser'[1].cur_event_blob_iter[1]
                 first == parse_header(it.data, 0, DefaultEventBlobHeader,
                                       it.compressed_headers, FALSE)
                 ev == last'.val
             IN  /\ first.ok
                 /\ EventOfHeader(ev, first.v)
                 /\ it.compressed_headers =>
                       /\ it.prev_header = first.v
                       /\ ~is_set(it.data[1], 1) => ev.capture_thread_id = W64(0)
                       /\ ~is_set(it.data[1], 2) => ev.thread_id = W64(0)
                       /\ ~is_set(it.data[1], 4) => ev.activity_id = ZeroBytes16
                       /\ ~is_set(it.data[1], 5) => ev.related_activity_id = ZeroBytes16
                       /\ ~is_set(it.data[1], 7) => ev.payload = <<>>
       /\ (StepNextEvent /\ last'.kind = "Some"
              /\ parser'[1].cur_event_blob_iter[1].compressed_headers) =>
             EventOfHeader(last'.val, parser'[1].cur_event_blob_iter[1].prev_header)
      ]_vars

\* The third event of <<Metadata1, EventsAB, EventsAB>>: the first blob of
\* the second EventBlock has the timestamp 100 and the sequence number 1 of
\* the first blob of the first one, after a blob that left 103 and 2.
C26_Witness ==
    /\ src.objs = <<"Metadata1", "EventsAB", "EventsAB">>
    /\ last.op = "next_event" /\ last.kind = "Some"
    /\ Len(events) = 3
    /\ events[2].timestamp = W64(103)
    /\ events[2].sequence_number = W32(2)
    /\ last.val.timestamp = W64(100)
    /\ last.val.sequence_number = W32(1)
    /\ parser[1].cur_event_blob_iter[1].prev_header.timestamp = W64(100)

---------------------------------------------------------------------------
(* A metadata id defined twice.                                            *)

\* The definitions of the named objects, in file order.
RECURSIVE DefsIn(_)
DefsIn(names) ==
    IF names = <<>> THEN <<>> ELSE Obj(Head(names)).defs \o DefsIn(Tail(names))

\* The last definition of the k-th blob's metadata id before the blob's
\* block; <<>> if there is none.
LatestDef(names, k) ==
    LET defs == DefsIn(SubSeq(names, 1, BlockOf(names, k) - 1))
        ns == {n \in 1..Len(defs) : defs[n].id = BlobsIn(names)[k].metadata_id}
    IN  IF ns = {} THEN <<>>
        ELSE defs[CHOOSE n \in ns : \A m \in ns : m <= n]

\* The registry holds every definition under the definition's own id.
KeyedById ==
    parser # None =>
        \A key \in DOMAIN parser[1].metadata_map : parser[1].metadata_map[key].id = key

\* C30: a definition whose id the registry holds replaces the earlier one:
\* every event carries the provider name, event id and version of the last
\* definition of its metadata id before its block (the old one before the
\* redefining block, the new one after it); the registry holds one
\* definition for an id, and a key it holds stays.
C30_RedefinitionReplaces ==
    /\ [](/\ \A k \in 1..Len(events) :
                /\ k <= Len(BlobsOf(src))
                /\ LatestDef(src.objs, k) # <<>>
                /\ Carries(events[k], LatestDef(src.objs, k))
          /\ KeyedById)
    /\ [][parser # None /\ parser' # None =>
             DOMAIN parser[1].metadata_map \subseteq DOMAIN parser'[1].metadata_map]_vars

\* The third event of <<Metadata1, EventsAB, Metadata1b, EventsAB, Null>>:
\* the first two carry Def1, the third Def1b; the registry has the one key.
C30_Witness ==
    /\ src.objs = <<"Metadata1", "EventsAB", "Metadata1b", "EventsAB", "Null">>
    /\ Len(events) = 3
    /\ Carries(events[1], Def1)
    /\ Carries(events[2], Def1)
    /\ Carries(events[3], Def1b)
    /\ ~Carries(events[3], Def1)
    /\ events[3].event_id = W32(9)
    /\ DOMAIN parser[1].metadata_map = {W32(1)}
    /\ parser[1].metadata_map[W32(1)].version = W32(2)

---------------------------------------------------------------------------
(* Tagged extensions of a metadata definition.                             *)

\* The names of the definitions of the stream's MetadataBlocks of
\* extended definitions, in file order.
RECURSIVE ExtDefsIn(_)
ExtDefsIn(names) ==
    IF names = <<>> THEN <<>> ELSE ExtObjectDefs(Head(names)) \o ExtDefsIn(Tail(names))

\* The positions of the extensions of definition x that have the tag.
TagsAt(x, tag) == {i \in 1..Len(x.tags) : x.tags[i].tag = tag}
Last(S) == CHOOSE i \in S : \A j \in S : j <= i

\* The opcode and the layout the extensions leave: those of the last
\* OpCode and V2Params extension, None and the v1 layout without one.
ExtOpcode(x) ==
    IF TagsAt(x, MetadataTagOpCode) = {} THEN None
    ELSE Some(x.tags[Last(TagsAt(x, MetadataTagOpCode))].opcode)
LayoutOf(fields) ==
    [field_count |-> W32(Len(fields)),
     fields |-> [i \in 1..Len(fields) |->
                    [type_code |-> W32(fields[i].type_code), array_type_code |-> W32(0),
                     definition |-> None, field_name |-> fields[i].name]]]
ExtLayout(x) ==
    IF TagsAt(x, MetadataTagV2Params) = {} THEN LayoutOf(x.v1)
    ELSE LayoutOf(x.tags[Last(TagsAt(x, MetadataTagV2Params))].fields)

\* A V2Params extension after a v1 layout that has fields.
V2AfterV1(x) == x.v1 # <<>> /\ TagsAt(x, MetadataTagV2Params) # {}

\* The definitions of the stream before its first one with V2AfterV1.
StoredExtDefs(names) ==
    LET defs == ExtDefsIn(names)
        bad == {i \in 1..Len(defs) : V2AfterV1(ExtDef(defs[i]))}
    IN  IF bad = {} THEN defs
        ELSE SubSeq(defs, 1, (CHOOSE i \in bad : \A j \in bad : i <= j) - 1)

\* The first call of next_event has gone through the objects of a stream
\* of extended definitions.
ReadExtensionStream ==
    /\ src \in ExtensionStreams
    /\ last.op = "next_event"
    /\ nones = 0 \/ (nones = 1 /\ last.kind = "None")

\* C31: the tagged extensions of a metadata blob are read to the end of
\* its payload: the stored schema has the opcode of its tag-1 extension
\* and, when its v1 layout has no fields, the layout of its tag-2
\* extension in place of the v1 layout; a tag-2 extension after a v1
\* layout with fields makes the call fail, and no schema is stored for
\* that blob.
C31_TaggedExtensions ==
    /\ parser # None =>
          \A name \in ExtDefNames :
              LET x == ExtDef(name)
                  key == W32(x.id)
                  map == parser[1].metadata_map
              IN  /\ V2AfterV1(x) => key \notin DOMAIN map
                  /\ key \in DOMAIN map =>
                        /\ map[key].opcode = ExtOpcode(x)
                        /\ map[key].fields = ExtLayout(x)
    /\ ReadExtensionStream =>
          LET defs == ExtDefsIn(src.objs)
              stored == StoredExtDefs(src.objs)
          IN  /\ DOMAIN parser[1].metadata_map =
                    {W32(ExtDef(stored[i]).id) : i \in 1..Len(stored)}
              /\ (stored = defs) => last.kind = "None"
              /\ (stored # defs) => last.kind = "Panic"

\* The four blocks one after the other: the schemas 3, 4 and 5 are stored
\* (4 with the opcode 9 of its last tag and the two v2 fields), the call
\* fails at schema 6.
C31_Witness ==
    /\ src.objs = <<"Ext-v2", "Ext-op-v2-op", "Ext-v1", "Ext-v1-v2", "Null">>
    /\ last.op = "next_event"
    /\ last.kind = "Panic"
    /\ DOMAIN parser[1].metadata_map = {W32(3), W32(4), W32(5)}
    /\ parser[1].metadata_map[W32(3)].fields = LayoutOf(<<FieldX>>)
    /\ parser[1].metadata_map[W32(3)].opcode = None
    /\ parser[1].metadata_map[W32(4)].fields = LayoutOf(<<FieldX, FieldY>>)
    /\ parser[1].metadata_map[W32(4)].opcode = Some(9)
    /\ parser[1].metadata_map[W32(5)].fields = LayoutOf(<<FieldX>>)
    /\ parser[1].metadata_map[W32(5)].opcode = Some(7)

\* ---- Version gating of payload fields ----

\* The stream's event has been decoded from the method payload into a method
\* structure, or from the tick payload into a GcAllocationTick.
MethodDecoded ==
    /\ Typed
    /\ src.payload = "method"
    /\ decoded.val.variant \in {"MethodLoad", "MethodUnload", "MethodDCEnd"}
TickDecoded ==
    /\ Typed
    /\ src.payload = "tick"
    /\ decoded.val.variant = "GcAllocationTick"

\* The bytes of the method payload after method_flags, where the strings of
\* a verbose payload start: the 16-bit word there is 66, and the 64-bit word
\* after it is
AfterFlagsU64 == <<97, 114, 0, 70>>

\* C32: a method structure has clr_instance_id exactly from version 1 and
\* re_jit_id exactly from version 2, and its three strings are read exactly
\* for ids 143 and 144; a GcAllocationTick has the 64-bit amount, the type id,
\* the type name and the heap index read from version 2, address from version
\* 3 and object_size from version 4; a field that is gated off takes no
\* bytes, so that the next field present is read from where it would start.
C32_VersionGating ==
    /\ MethodDecoded =>
          LET ev == decoded.val.ev
              verbose == src.event_id \in {143, 144}
          IN  /\ ev.method_flags = W32(8)
              /\ ev.method_namespace = (IF verbose THEN WideBar ELSE <<>>)
              /\ ev.method_name = (IF verbose THEN WideFoo ELSE <<>>)
              /\ ev.method_signature = (IF verbose THEN WideSig ELSE <<>>)
              /\ ev.clr_instance_id # None <=> src.version >= 1
              /\ ev.re_jit_id # None <=> src.version >= 2
              /\ src.version >= 1 =>
                    ev.clr_instance_id = Some(IF verbose THEN 9 ELSE 66)
              /\ src.version >= 2 =>
                    ev.re_jit_id = Some(IF verbose THEN W64(3) ELSE AfterFlagsU64)
    /\ TickDecoded =>
          LET ev == decoded.val.ev IN
              /\ ev.clr_instance_id = 9
              /\ ev.allocation_amount64 = (IF src.version >= 2 THEN W64(4096) ELSE W64(0))
              /\ ev.type_id = (IF src.version >= 2 THEN W64(51) ELSE W64(0))
              /\ ev.type_name = (IF src.version >= 2 THEN WideFoo ELSE <<>>)
              /\ ev.heap_index = W32(0)
              /\ ev.address = (IF src.version >= 3 THEN Some(W64(8192)) ELSE None)
              /\ ev.object_size = (IF src.version >= 4 THEN Some(W64(24)) ELSE None)

\* A version-1 MethodLoad (id 141) has been decoded from the verbose payload:
\* its clr_instance_id is the word where the namespace would start, and it
\* has no re_jit_id.
C32_Witness ==
    /\ src = DecodeInput("regular", 141, 1, "method", "narrow")
    /\ decoded.kind = "Some"
    /\ decoded.val.ev.method_name = <<>>
    /\ decoded.val.ev.clr_instance_id = Some(66)
    /\ decoded.val.ev.re_jit_id = None

---------------------------------------------------------------------------
(* The trace consumer against the trace it was given.                      *)

\* The reader has been dropped.
Closed == processor.reader = None

\* The Clear operations in a queue, as their places.
Clears(queue) == {n \in 1..Len(queue) : queue[n].op = LibMappingOpClear}

\* The timestamp of the last event next_event has returned, 0 if none.
LastPolledTimestamp ==
    IF Len(polls) >= 2 THEN polls[Len(polls) - 1].ts ELSE W64(0)

\* C37: only the last call of next_event has returned anything but an
\* event; once one has returned the end of the stream or an error, the
\* reader is dropped, the queue holds one Clear, as its last operation and
\* at the timestamp of the last event returned, and one symbol table has
\* been set; before that there is no Clear and no symbol table; and a call
\* made without a reader calls next_event no more and leaves the queue and
\* the symbol tables as they were.
C37_NoPollPastEnd ==
    /\ [](/\ \A n \in 1..(Len(polls) - 1) : polls[n].kind = "Some"
          /\ Closed <=> (polls # <<>> /\ polls[Len(polls)].kind \in {"None", "Err"})
          /\ Closed =>
                /\ Clears(processor.lib_mapping_ops) = {Len(processor.lib_mapping_ops)}
                /\ processor.lib_mapping_ops[Len(processor.lib_mapping_ops)].ts
                      = LastPolledTimestamp
                /\ Len(profile.symbol_tables) = 1
          /\ ~Closed =>
                /\ Clears(processor.lib_mapping_ops) = {}
                /\ profile.symbol_tables = <<>>)
    /\ [][Closed =>
             /\ polls' = polls
             /\ processor' = processor
             /\ profile' = profile]_vars

\* A trace of three methods and the NullReference tag, after
\* process_pending_records, process_pending_records again and finish: four
\* calls of next_event, one Clear at the third event's timestamp, one
\* symbol table of three symbols.
C37_Witness ==
    /\ src.ending = "null" /\ Len(src.methods) = 3
    /\ \A n \in 1..3 : src.methods[n].kind = "load"
    /\ trace_last.op = "finish" /\ trace_last.calls = 3
    /\ Len(polls) = 4 /\ polls[4].kind = "None"
    /\ Closed
    /\ Len(trace_last.ret) = 4
    /\ trace_last.ret[4] = [ts |-> W64(300), op |-> LibMappingOpClear]
    /\ Len(profile.symbol_tables) = 1 /\ Len(profile.symbol_tables[1]) = 3

\* Method n of the trace is a load or a rundown entry that is not one of a
\* pair (address, name) an earlier load of the trace has.
AddsMethod(n) ==
    LET m == src.methods[n] IN
    /\ m.kind \in {"load", "dcend"}
    /\ ~(/\ m.kind = "dcend"
         /\ \E j \in 1..(n - 1) :
               /\ src.methods[j].kind = "load"
               /\ src.methods[j].addr = m.addr
               /\ src.methods[j].name = m.name)

\* The sizes of the methods before n that were added, summed.
RECURSIVE SizesBefore(_)
SizesBefore(n) ==
    IF n = 1 THEN 0
    ELSE SizesBefore(n - 1) + (IF AddsMethod(n - 1) THEN src.methods[n - 1].size ELSE 0)

\* The symbols and the Add operations the methods from n on are to give.
RECURSIVE SymbolsFrom(_)
SymbolsFrom(n) ==
    IF n > Len(src.methods) THEN <<>>
    ELSE (IF AddsMethod(n)
          THEN <<[address |-> W32(SizesBefore(n)),
                  size |-> IF src.methods[n].size = 0 THEN None
                           ELSE Some(W32(src.methods[n].size)),
                  name |-> src.methods[n].name]>>
          ELSE <<>>) \o SymbolsFrom(n + 1)
RECURSIVE AddsFrom(_)
AddsFrom(n) ==
    IF n > Len(src.methods) THEN <<>>
    ELSE (IF AddsMethod(n)
          THEN <<[ts |-> IF src.methods[n].kind = "dcend" THEN W64(0) ELSE W64(100 * n),
                  op |-> LibMappingOpAdd(W64(src.methods[n].addr),
                                         W64(src.methods[n].addr + src.methods[n].size),
                                         W32(SizesBefore(n)))]>>
          ELSE <<>>) \o AddsFrom(n + 1)

\* The trace has been read to the end of its EventBlock.
TraceRead == Closed /\ src.ending # "cut"

\* C38: once the trace is read, the symbol table and the queue hold, in the
\* order of the file, one symbol and one Add for each MethodLoad and each
\* MethodDCEnd but the MethodDCEnds of a pair (start address, name) an
\* earlier MethodLoad had; the symbol's address, which is the Add's relative
\* address, is the sum of the sizes of the methods added before it, and the
\* Add's timestamp is 0 for a MethodDCEnd and the event's for a MethodLoad.
C38_SymbolsOfMethods ==
    TraceRead =>
        /\ profile.symbol_tables = <<SymbolsFrom(1)>>
        /\ processor.lib_mapping_ops =
              AddsFrom(1) \o <<[ts |-> LastPolledTimestamp, op |-> LibMappingOpClear]>>
        /\ processor.cumulative_address = W32(SizesBefore(Len(src.methods) + 1))

\* Foo loaded at 4096, then Foo at 4096 and Bar at 4096 in the rundown: the
\* table has Foo at 0 and Bar at 64, and Bar's mapping starts at 0.
C38_Witness ==
    /\ src = TraceInput(<<TraceMethod("load", 4096, WideFoo, 64),
                          TraceMethod("dcend", 4096, WideFoo, 64),
                          TraceMethod("dcend", 4096, WideBar, 0)>>, "null")
    /\ Closed
    /\ profile.symbol_tables =
          << << [address |-> W32(0), size |-> Some(W32(64)), name |-> WideFoo],
                [address |-> W32(64), size |-> None, name |-> WideBar] >> >>
    /\ Len(processor.lib_mapping_ops) = 3
    /\ processor.lib_mapping_ops[1].ts = W64(100)
    /\ processor.lib_mapping_ops[2].ts = W64(0)
    /\ processor.lib_mapping_ops[2].op.relative_address_at_start = W32(64)
    /\ processor.cumulative_address = W32(64)

---------------------------------------------------------------------------
(* The end of the stream.                                                  *)

\* C39: once next_event has returned the end of the stream, every later
\* call of it returns the end of the stream again, and leaves the parser
\* (its position, its registries and its trace info) as it was.
C39_EndOfStreamSticky ==
    [][(nones >= 1 /\ StepNextEvent) =>
          /\ last'.kind = "None"
          /\ parser' = parser]_vars

---------------------------------------------------------------------------
(* The form of a type object.                                              *)

\* C40: on a stream whose first object has a type object that does not
\* end with EndObject, or does not start with BeginPrivateObject, next_event
\* and trace_info return an error, and nothing of the object is taken: no
\* definition, no trace info, no event.
C40_TypeObjectForm ==
    (src \in TypeObjectStreams /\ last.op \in {"next_event", "trace_info"}) =>
        /\ last.kind = "Err"
        /\ parser[1].metadata_map = EmptyMap
        /\ parser[1].trace_info = None
        /\ events = <<>>

=============================================================================
